---- MODULE Spec2Model ----
(***************************************************************************)
(* Scan orchestration of SecureScan: the POST /api/scans handler, the      *)
(* background task performScan, ScannerService.scanDirectory with its tool *)
(* adapters, the cancel handler, MemStorage and the live activeScans map.  *)
(*                                                                         *)
(* Granularity.  Node runs one continuation at a time.  A continuation     *)
(* that follows an await on an already settled promise (every MemStorage   *)
(* method, runDeepAnalysis) is a microtask: it runs before any I/O         *)
(* callback, HTTP request or timer.  Such steps are separate actions       *)
(* here, but while one is pending (InChain) no request handler and no I/O  *)
(* completion of any session is taken.                                     *)
(***************************************************************************)
EXTENDS Integers, Sequences, FiniteSets, TLC

\* ---------------------------------------------------------------- bounds

\* Number of scan sessions (scan ids handed out by randomUUID).
NumSessions == 2

\* Largest number of findings one tool run reports.
MaxFindings == 1

\* Largest number of findings already stored per session before a re-run.
MaxPrior == 1

Sessions == 1 .. NumSessions

\* ------------------------------------------------- scanner.ts: the stages

Tools ==
  {"eslint", "npmAudit", "securityPatterns", "semgrep", "trivy",
   "secretScan", "bandit", "safety", "deepAnalysis"}

\* A scanner whose first two blocks are exchanged (npm audit before ESLint):
\* the ordering property of C5 must tell it from the real one.
StageOrderAuditFirst ==
  <<"npmAudit", "eslint", "securityPatterns", "semgrep", "trivy",
    "secretScan", "bandit", "safety", "deepAnalysis">>

\* scanDirectory: the order of the `if (options.X)` blocks.
StageOrder ==
  <<"eslint", "npmAudit", "securityPatterns", "semgrep", "trivy",
    "secretScan", "bandit", "safety", "deepAnalysis">>

\* A scanner whose Semgrep block reports 55, below the 60 of the block
\* before it: the monotonicity property of C3 must tell it from the real one.
StageProgressSemgrepLow(t) ==
  CASE t = "eslint" -> 25
    [] t = "npmAudit" -> 50
    [] t = "securityPatterns" -> 60
    [] t = "semgrep" -> 55
    [] t = "trivy" -> 85
    [] t = "secretScan" -> 90
    [] t = "bandit" -> 95
    [] t = "safety" -> 98
    [] t = "deepAnalysis" -> 99

\* scanDirectory: the progress value passed to onProgress by each block.
StageProgress(t) ==
  CASE t = "eslint" -> 25
    [] t = "npmAudit" -> 50
    [] t = "securityPatterns" -> 60
    [] t = "semgrep" -> 75
    [] t = "trivy" -> 85
    [] t = "secretScan" -> 90
    [] t = "bandit" -> 95
    [] t = "safety" -> 98
    [] t = "deepAnalysis" -> 99

\* scanDirectory: the step label passed to onProgress by each block.
StageLabel(t) ==
  CASE t = "eslint" -> "Running ESLint analysis..."
    [] t = "npmAudit" -> "Running npm audit..."
    [] t = "securityPatterns" -> "Analyzing security patterns..."
    [] t = "semgrep" -> "Running Semgrep analysis..."
    [] t = "trivy" -> "Running Trivy security scan..."
    [] t = "secretScan" -> "Scanning for secrets..."
    [] t = "bandit" -> "Running Bandit Python security scan..."
    [] t = "safety" -> "Running Safety dependency check..."
    [] t = "deepAnalysis" -> "Running deep analysis..."

\* The `timeout` option (ms) of the adapter's execAsync call; 0 when the call
\* passes no timeout (runESLint, runNpmAudit, the find of
\* analyzeSecurityPatterns).  runDeepAnalysis starts no process.
ToolTimeoutMs(t) ==
  CASE t = "semgrep" -> 120000
    [] t = "trivy" -> 180000
    [] t = "secretScan" -> 120000
    [] t = "bandit" -> 120000
    [] t = "safety" -> 120000
    [] OTHER -> 0

\* Adapters that await an external process.
UsesProcess(t) == t # "deepAnalysis"

\* Index of the first enabled stage after position i; Len(StageOrder) + 1
\* when there is none (scanDirectory falls through to the summary).
NextStage(opts, i) ==
  LET later == {j \in (i + 1) .. Len(StageOrder) : StageOrder[j] \in opts}
  IN  IF later = {} THEN Len(StageOrder) + 1
      ELSE CHOOSE j \in later : \A k \in later : j <= k


\* ------------------------------------------------------ storage.ts: scans

\* A JavaScript object spread {...rec, ...upd}: the fields of upd win.
Merge(rec, upd) ==
  [k \in DOMAIN rec |-> IF k \in DOMAIN upd THEN upd[k] ELSE rec[k]]

\* Map.set(k, v).
MapSet(m, k, v) ==
  [x \in DOMAIN m \cup {k} |-> IF x = k THEN v ELSE m[x]]

\* A delete that empties the whole map (`clear()` written for `delete(k)`).
\* The frame property of C11 must tell it from the real one.
MapDeleteAll(m, k) == [x \in {} |-> 0]

\* Map.delete(k).
MapDelete(m, k) == [x \in DOMAIN m \ {k} |-> m[x]]

\* MemStorage.createScan: status as given (or "pending"), progress 0, no
\* step, no completion time.
CreateScan(insertStatus) ==
  [status |-> IF insertStatus = "" THEN "pending" ELSE insertStatus,
   progress |-> 0,
   currentStep |-> "null",
   completedAt |-> FALSE]

\* MemStorage.updateScan: an unknown id is left alone, a known record is
\* overwritten field by field, whatever its present status.
UpdateScan(m, id, updates) ==
  IF id \notin DOMAIN m THEN m ELSE MapSet(m, id, Merge(m[id], updates))

\* ----------------------------------------------------- storage.ts: issues

\* MemStorage.createIssue: the finding stored under a fresh id.
CreateIssue(id, scanId, source) ==
  [id |-> id, scanId |-> scanId, source |-> source]

\* MemStorage.getIssuesByScan (as a set; the sort is by severity only).
GetIssuesByScan(store, scanId) == {i \in store : i.scanId = scanId}

\* MemStorage.deleteIssuesByScan.
DeleteIssuesByScan(store, scanId) == {i \in store : i.scanId # scanId}

\* performScan: `for (const issue of scanResult.issues) createIssue(...)`,
\* the first k findings of the list, ids counted up from `first`.
CreatedIssues(scanId, list, k, first) ==
  {CreateIssue(first + j - 1, scanId, list[j]) : j \in 1 .. k}

\* A save block without the deleteIssuesByScan call: the findings of the
\* earlier run stay.  The replacement property of C9 must tell it from the
\* real one.
SavedIssuesKeepingOld(store, scanId, list, first) ==
  store \cup CreatedIssues(scanId, list, Len(list), first)

\* performScan's save block: clear the session's findings, then insert the
\* findings of this run.
SavedIssues(store, scanId, list, first) ==
  DeleteIssuesByScan(store, scanId) \cup CreatedIssues(scanId, list, Len(list), first)

\* ------------------------------------------------- scanner.ts: adapters

\* What execAsync delivers to an adapter: whether the promise rejected
\* (non-zero exit, spawn failure, kill on timeout) and what stdout held:
\* nothing, a well-formed report with n results, or unparsable text.
ExecResults ==
  {[err |-> e, stdout |-> "json", n |-> n] : e \in BOOLEAN, n \in 0 .. MaxFindings}
    \cup {[err |-> e, stdout |-> o, n |-> 0] : e \in BOOLEAN, o \in {"empty", "garbage"}}

\* What execAsync delivers when its timer kills the child: a rejection whose
\* error.stdout is whatever the child had written, be it nothing, a
\* truncated report, or well-formed results (TruffleHog prints one JSON line
\* per secret as it goes).
TimeoutResults == {r \in ExecResults : r.err}

\* The external tool was missing, crashed, was killed or wrote unparsable
\* output, and the call produced no well-formed report.
IsToolFailure(res) ==
  res.stdout = "garbage" \/ (res.err /\ res.stdout = "empty")

\* `.catch(error => ({stdout: error.stdout || <default>}))` followed by
\* `stdout || <default>`: an empty stdout becomes the empty report.
EffectiveStdout(res) ==
  IF res.stdout = "empty" THEN [stdout |-> "json", n |-> 0]
  ELSE [stdout |-> res.stdout, n |-> res.n]

\* An adapter without the try/catch: the JSON.parse error escapes.  The
\* isolation property of C6 must tell it from the real one.
RunJsonToolNoCatch(res) ==
  LET out == EffectiveStdout(res)
  IN  IF out.stdout = "garbage"
      THEN [n |-> 0, logged |-> TRUE, threw |-> TRUE]
      ELSE [n |-> out.n, logged |-> FALSE, threw |-> FALSE]

\* runESLint, runNpmAudit, runSemgrep, runTrivy, runBandit, runSafety:
\* JSON.parse of the effective stdout inside try/catch; a parse error is
\* logged and the adapter returns [].
RunJsonTool(res) ==
  LET out == EffectiveStdout(res)
  IN  IF out.stdout = "garbage"
      THEN [n |-> 0, logged |-> TRUE, threw |-> FALSE]
      ELSE [n |-> out.n, logged |-> FALSE, threw |-> FALSE]

\* runSecretScan: stdout is parsed line by line, malformed lines skipped.
RunSecretScan(res) ==
  LET out == EffectiveStdout(res)
  IN  [n |-> IF out.stdout = "garbage" THEN 0 ELSE out.n,
       logged |-> FALSE, threw |-> FALSE]

\* analyzeSecurityPatterns: the find call has no .catch, so its rejection
\* lands in the adapter's try/catch; unreadable files are skipped.
AnalyzeSecurityPatterns(res) ==
  IF res.err THEN [n |-> 0, logged |-> TRUE, threw |-> FALSE]
  ELSE [n |-> IF res.stdout = "json" THEN res.n ELSE 0,
        logged |-> FALSE, threw |-> FALSE]

\* The adapter of tool t applied to what its process delivered.
Adapter(t, res) ==
  CASE t = "secretScan" -> RunSecretScan(res)
    [] t = "securityPatterns" -> AnalyzeSecurityPatterns(res)
    [] OTHER -> RunJsonTool(res)

\* issues.push(...toolIssues): n findings whose source is t.
Pushed(list, t, n) ==
  list \o [j \in 1 .. n |-> t]


\* ------------------------------------------------------------------ state

VARIABLES
  scans,            \* MemStorage.scans: scan id -> durable scan record
  activeScans,      \* routes: the live progress map, scan id -> entry
  issues,           \* MemStorage.issues: the stored findings
  nextId,           \* the next fresh issue id (randomUUID never repeats)
  pc,               \* where each session's request / background task stands
  scanOptions,      \* the enabled tools each performScan was started with
  stage,            \* scanDirectory: index in StageOrder of the current stage
  found,            \* scanDirectory: the local `issues` list (sources)
  proc,             \* the external tool processes running for each session
  progressPending,  \* onProgress calls whose activeScans.set has not run yet
  workDir,          \* the session's tempDir: "unused", "present", "removed"
  cause,            \* what threw inside performScan's try, "none" if nothing
  cleanupLog,       \* GitHubService.cleanup: "none", "ok", "failed" (logged)
  ran,              \* history: the stages started, in order
  failedStages,     \* history: the stages whose tool produced no report
  cancelledAt,      \* history: "never", or the task's phase at the first cancel
  timedOut,         \* history: the stages whose process was killed on timeout
  dirs,             \* the directory names computed for each scan session
  rem,              \* a remediation / pull-request request and its effects
  diffCase,         \* a call of RemediationService.generateDiff
  guardCase,        \* a call of SecurityUtils.validatePath or sanitizeRepositoryName
  stored,           \* what an adapter stores for a value its tool reported
  branch,           \* a branch name on its way through commit and push
  models            \* MemStorage.modelSettings: id -> model configuration

\* The state outside the scan sessions.
auxVars == <<dirs, rem, diffCase, guardCase, stored, branch, models>>

vars ==
  <<scans, activeScans, issues, nextId, pc, scanOptions, stage, found, proc,
    progressPending, workDir, cause, cleanupLog, ran, failedStages, cancelledAt,
    timedOut, auxVars>>

taskVars ==
  <<pc, scanOptions, stage, found, proc, progressPending, workDir, cause,
    cleanupLog, ran, failedStages, timedOut>>

\* The empty Map.
EmptyMap == [x \in {} |-> 0]

\* The positions whose next step is a microtask of the same turn.
ChainPcs ==
  {"created", "started", "deep", "save", "saved", "completing", "catch",
   "catching", "rejected"}

\* Session s has a continuation queued on the microtask queue.
InChain(s) == pc[s] \in ChainPcs \/ progressPending[s] # <<>>

\* The microtask queue is empty: the event loop takes the next request, I/O
\* completion or timer.
Quiet == \A r \in Sessions : ~InChain(r)

\* No directory name computed, no remediation request, no call under study.
DirsIdle == dirs = [s \in Sessions |-> <<>>]

RemIdle == rem = [pc |-> "idle"]

DiffIdle == diffCase = [at |-> "idle"]

GuardIdle == guardCase = [at |-> "idle"]

StoredIdle == stored = [at |-> "idle"]

BranchIdle == branch = [at |-> "idle"]

ModelsIdle == models = <<>>

AuxIdle ==
  /\ DirsIdle /\ RemIdle /\ DiffIdle /\ GuardIdle /\ StoredIdle
  /\ BranchIdle /\ ModelsIdle

\* `storage = new MemStorage()`, `activeScans = new Map()`, no request yet.
InitTasks ==
  /\ pc = [s \in Sessions |-> "idle"]
  /\ scanOptions = [s \in Sessions |-> {}]
  /\ stage = [s \in Sessions |-> 0]
  /\ found = [s \in Sessions |-> <<>>]
  /\ proc = [s \in Sessions |-> {}]
  /\ progressPending = [s \in Sessions |-> <<>>]
  /\ workDir = [s \in Sessions |-> "unused"]
  /\ cause = [s \in Sessions |-> "none"]
  /\ cleanupLog = [s \in Sessions |-> "none"]
  /\ ran = [s \in Sessions |-> <<>>]
  /\ failedStages = [s \in Sessions |-> {}]
  /\ cancelledAt = [s \in Sessions |-> "never"]
  /\ timedOut = [s \in Sessions |-> {}]

\* The scan side at start: empty storage, empty live map, no task.
ScanIdle ==
  /\ scans = EmptyMap
  /\ activeScans = EmptyMap
  /\ issues = {}
  /\ nextId = 1
  /\ InitTasks

Init == ScanIdle /\ AuxIdle


\* -------------------------------------------- routes: the written values

\* An activeScans entry.
LiveEntry(status, progress, step) ==
  [status |-> status, progress |-> progress, currentStep |-> step]

\* performScan, first write: status scanning, progress 10.
ScanningUpdate ==
  [status |-> "scanning", currentStep |-> "Cloning repository...", progress |-> 10]

\* onProgress: the step and progress of the stage, the status untouched.
ProgressUpdate(step, progress) ==
  [currentStep |-> step, progress |-> progress]

\* A completion write that only sets the status and the completion time.
\* The completed-record property of C30 must tell it from the real one.
CompletedUpdateStatusOnly == [status |-> "completed", completedAt |-> TRUE]

\* performScan, last write of the try block.
CompletedUpdate ==
  [status |-> "completed", progress |-> 100, currentStep |-> "null",
   completedAt |-> TRUE]

\* performScan's catch block, the .catch of POST /api/scans and the cancel
\* handler all write this.
FailedUpdate == [status |-> "failed", completedAt |-> TRUE]

\* ------------------------------------------------ POST /api/scans handler

\* The handler after validateAndParseUrl resolved: storage.createScan with
\* status "pending" under a fresh id.
PostScan(s, opts) ==
  /\ Quiet
  /\ pc[s] = "idle"
  /\ s \notin DOMAIN scans
  /\ scans' = MapSet(scans, s, CreateScan("pending"))
  /\ scanOptions' = [scanOptions EXCEPT ![s] = opts]
  /\ pc' = [pc EXCEPT ![s] = "created"]
  /\ UNCHANGED <<activeScans, issues, nextId, stage, found, proc,
                 progressPending, workDir, cause, cleanupLog, ran,
                 failedStages, cancelledAt, timedOut,
                 auxVars>>

\* After `await storage.createScan`: activeScans.set(pending, 0), then the
\* call of performScan up to its first await: the temp directory name is
\* computed and storage.updateScan(scanning, 10) is called.
TrackScan(s) ==
  /\ pc[s] = "created"
  /\ activeScans' = MapSet(activeScans, s, LiveEntry("pending", 0, "null"))
  /\ scans' = UpdateScan(scans, s, ScanningUpdate)
  /\ pc' = [pc EXCEPT ![s] = "started"]
  /\ UNCHANGED <<issues, nextId, scanOptions, stage, found, proc,
                 progressPending, workDir, cause, cleanupLog, ran,
                 failedStages, cancelledAt, timedOut,
                 auxVars>>

\* performScan after `await storage.updateScan`: activeScans.set(scanning,
\* 10), then cloneRepository is called.  Its synchronous prefix
\* (generateSecureDirectory of the repository name, validatePath) throws
\* for an unsafe repository name; otherwise fs.rm and git clone are awaited.
SetScanning(s, nameOk) ==
  /\ pc[s] = "started"
  /\ activeScans' =
       MapSet(activeScans, s, LiveEntry("scanning", 10, "Cloning repository..."))
  /\ pc' = [pc EXCEPT ![s] = IF nameOk THEN "cloning" ELSE "catch"]
  /\ cause' = [cause EXCEPT ![s] = IF nameOk THEN "none" ELSE "clone"]
  /\ UNCHANGED <<scans, issues, nextId, scanOptions, stage, found, proc,
                 progressPending, workDir, ran, cleanupLog, failedStages,
                 cancelledAt, timedOut,
                 auxVars>>

\* ------------------------------------------ performScan / scanDirectory

\* scanDirectory moving on from position stage[s] with the findings `list`:
\* either the next enabled block calls onProgress (storage.updateScan runs
\* at once, activeScans.set is left to a microtask) and starts its adapter,
\* or no block is left and scanDirectory returns to performScan.  `running`
\* are the session's processes still alive at this point.
Advance(s, list, running) ==
  LET j == NextStage(scanOptions[s], stage[s])
      t == StageOrder[j]
  IN  /\ stage' = [stage EXCEPT ![s] = j]
      /\ found' = [found EXCEPT ![s] = list]
      /\ IF j > Len(StageOrder)
         THEN /\ pc' = [pc EXCEPT ![s] = "save"]
              /\ proc' = [proc EXCEPT ![s] = running]
              /\ UNCHANGED <<scans, progressPending, ran>>
         ELSE /\ scans' =
                   UpdateScan(scans, s, ProgressUpdate(StageLabel(t), StageProgress(t)))
              /\ progressPending' =
                   [progressPending EXCEPT
                      ![s] = Append(@, [step |-> StageLabel(t),
                                        progress |-> StageProgress(t)])]
              /\ ran' = [ran EXCEPT ![s] = Append(@, t)]
              /\ pc' = [pc EXCEPT
                          ![s] = IF t = "npmAudit" THEN "access"
                                 ELSE IF UsesProcess(t) THEN "exec" ELSE "deep"]
              /\ proc' = [proc EXCEPT
                            ![s] = IF UsesProcess(t) /\ t # "npmAudit"
                                   THEN running \cup {t} ELSE running]

\* The rest of onProgress after `await storage.updateScan`:
\* activeScans.set(scanning, progress, step), whatever the map holds.
ProgressCont(s) ==
  /\ progressPending[s] # <<>>
  /\ activeScans' =
       MapSet(activeScans, s,
              LiveEntry("scanning", Head(progressPending[s]).progress,
                        Head(progressPending[s]).step))
  /\ progressPending' = [progressPending EXCEPT ![s] = Tail(@)]
  /\ UNCHANGED <<scans, issues, nextId, pc, scanOptions, stage, found, proc,
                 workDir, cause, cleanupLog, ran, failedStages, cancelledAt, timedOut,
                 auxVars>>

\* git clone succeeded: the working copy exists; scanDirectory is called and
\* awaits its file count (`find | wc -l`).
CloneOk(s) ==
  /\ Quiet
  /\ pc[s] = "cloning"
  /\ workDir' = [workDir EXCEPT ![s] = "present"]
  /\ pc' = [pc EXCEPT ![s] = "counting"]
  /\ UNCHANGED <<scans, activeScans, issues, nextId, scanOptions, stage, found,
                 proc, progressPending, cause, cleanupLog, ran, failedStages,
                 cancelledAt, timedOut,
                 auxVars>>

\* fs.rm or git clone failed (a partial directory may be left behind):
\* cloneRepository throws, performScan's catch block is entered.
CloneFail(s, left) ==
  /\ Quiet
  /\ pc[s] = "cloning"
  /\ workDir' = [workDir EXCEPT ![s] = IF left THEN "present" ELSE @]
  /\ cause' = [cause EXCEPT ![s] = "clone"]
  /\ pc' = [pc EXCEPT ![s] = "catch"]
  /\ UNCHANGED <<scans, activeScans, issues, nextId, scanOptions, stage, found,
                 proc, progressPending, cleanupLog, ran, failedStages,
                 cancelledAt, timedOut,
                 auxVars>>

\* The file count returned: scanDirectory enters its first enabled block.
CountOk(s) ==
  /\ Quiet
  /\ pc[s] = "counting"
  /\ Advance(s, found[s], proc[s])
  /\ UNCHANGED <<activeScans, issues, nextId, scanOptions, workDir, cause,
                 cleanupLog, failedStages, cancelledAt, timedOut,
                 auxVars>>

\* The file count failed: scanDirectory's catch rethrows "Scan failed".
CountFail(s) ==
  /\ Quiet
  /\ pc[s] = "counting"
  /\ cause' = [cause EXCEPT ![s] = "count"]
  /\ pc' = [pc EXCEPT ![s] = "catch"]
  /\ UNCHANGED <<scans, activeScans, issues, nextId, scanOptions, stage, found,
                 proc, progressPending, workDir, cleanupLog, ran, failedStages,
                 cancelledAt, timedOut,
                 auxVars>>


\* The adapter of stage t got `res` from its call: its findings are pushed
\* and scanDirectory moves on; an error escaping the adapter would land in
\* scanDirectory's catch and be rethrown to performScan.
StageReturns(s, t, res, killed) ==
  LET r == Adapter(t, res)
  IN  /\ failedStages' =
           [failedStages EXCEPT ![s] = IF IsToolFailure(res) THEN @ \cup {t} ELSE @]
      /\ timedOut' = [timedOut EXCEPT ![s] = IF killed THEN @ \cup {t} ELSE @]
      /\ IF r.threw
         THEN /\ cause' = [cause EXCEPT ![s] = "stage"]
              /\ pc' = [pc EXCEPT ![s] = "catch"]
              /\ proc' = [proc EXCEPT ![s] = @ \ {t}]
              /\ UNCHANGED <<scans, stage, found, progressPending, ran>>
         ELSE /\ Advance(s, Pushed(found[s], t, r.n), proc[s] \ {t})
              /\ UNCHANGED cause

\* runNpmAudit: fs.access(package.json) succeeded, `npm audit --json` starts.
AccessOk(s) ==
  /\ Quiet
  /\ pc[s] = "access"
  /\ proc' = [proc EXCEPT ![s] = @ \cup {"npmAudit"}]
  /\ pc' = [pc EXCEPT ![s] = "exec"]
  /\ UNCHANGED <<scans, activeScans, issues, nextId, scanOptions, stage, found,
                 progressPending, workDir, cause, cleanupLog, ran, failedStages,
                 cancelledAt, timedOut,
                 auxVars>>

\* runNpmAudit: no package.json; fs.access rejects, the adapter's catch logs
\* it and returns [].
AccessFail(s) ==
  /\ Quiet
  /\ pc[s] = "access"
  /\ failedStages' = [failedStages EXCEPT ![s] = @ \cup {"npmAudit"}]
  /\ Advance(s, found[s], proc[s])
  /\ UNCHANGED <<activeScans, issues, nextId, scanOptions, workDir, cause,
                 cleanupLog, cancelledAt, timedOut,
                 auxVars>>

\* The external tool of the current stage ended by itself.
ToolExit(s, res) ==
  /\ Quiet
  /\ pc[s] = "exec"
  /\ StageReturns(s, StageOrder[stage[s]], res, FALSE)
  /\ UNCHANGED <<activeScans, issues, nextId, scanOptions, workDir, cleanupLog,
                 cancelledAt, auxVars>>

\* The timer of an execAsync call with a timeout option fired: the child is
\* killed and the call rejects.
ToolTimeout(s, res) ==
  /\ Quiet
  /\ pc[s] = "exec"
  /\ ToolTimeoutMs(StageOrder[stage[s]]) > 0
  /\ StageReturns(s, StageOrder[stage[s]], res, TRUE)
  /\ UNCHANGED <<activeScans, issues, nextId, scanOptions, workDir, cleanupLog,
                 cancelledAt, auxVars>>

\* runDeepAnalysis returned [] (no process, no I/O): scanDirectory resumes
\* after the queued onProgress continuation.
DeepReturn(s) ==
  /\ pc[s] = "deep"
  /\ progressPending[s] = <<>>
  /\ Advance(s, found[s], proc[s])
  /\ UNCHANGED <<activeScans, issues, nextId, scanOptions, workDir, cause,
                 cleanupLog, failedStages, cancelledAt, timedOut,
                 auxVars>>

\* performScan after scanDirectory returned: deleteIssuesByScan, then one
\* createIssue per finding.
SaveIssues(s) ==
  /\ pc[s] = "save"
  /\ progressPending[s] = <<>>
  /\ issues' = SavedIssues(issues, s, found[s], nextId)
  /\ nextId' = nextId + Len(found[s])
  /\ pc' = [pc EXCEPT ![s] = "saved"]
  /\ UNCHANGED <<scans, activeScans, scanOptions, stage, found, proc,
                 progressPending, workDir, cause, cleanupLog, ran, failedStages,
                 cancelledAt, timedOut,
                 auxVars>>

\* The storage rejects while saving (IStorage returns promises): k storage
\* calls succeeded before, so with k = 0 nothing is deleted yet, and with
\* k > 0 the old findings are deleted and the first k - 1 new ones inserted
\* when the catch block is entered.
SaveFail(s, k) ==
  /\ pc[s] = "save"
  /\ progressPending[s] = <<>>
  /\ k <= Len(found[s])
  /\ issues' =
       IF k = 0 THEN issues
       ELSE DeleteIssuesByScan(issues, s) \cup CreatedIssues(s, found[s], k - 1, nextId)
  /\ nextId' = IF k = 0 THEN nextId ELSE nextId + k - 1
  /\ cause' = [cause EXCEPT ![s] = "save"]
  /\ pc' = [pc EXCEPT ![s] = "catch"]
  /\ UNCHANGED <<scans, activeScans, scanOptions, stage, found, proc,
                 progressPending, workDir, cleanupLog, ran, failedStages,
                 cancelledAt, timedOut,
                 auxVars>>

\* performScan: storage.updateScan(completed, 100), whatever the record's
\* present status.
MarkCompleted(s) ==
  /\ pc[s] = "saved"
  /\ scans' = UpdateScan(scans, s, CompletedUpdate)
  /\ pc' = [pc EXCEPT ![s] = "completing"]
  /\ UNCHANGED <<activeScans, issues, nextId, scanOptions, stage, found, proc,
                 progressPending, workDir, cause, cleanupLog, ran, failedStages,
                 cancelledAt, timedOut,
                 auxVars>>

\* performScan: activeScans.delete, then the finally block calls cleanup.
Untrack(s) ==
  /\ pc[s] = "completing"
  /\ activeScans' = MapDelete(activeScans, s)
  /\ pc' = [pc EXCEPT ![s] = "cleanup"]
  /\ UNCHANGED <<scans, issues, nextId, scanOptions, stage, found, proc,
                 progressPending, workDir, cause, cleanupLog, ran, failedStages,
                 cancelledAt, timedOut,
                 auxVars>>

\* performScan's catch block: the error is logged and the record marked
\* failed.
CatchMarkFailed(s) ==
  /\ pc[s] = "catch"
  /\ progressPending[s] = <<>>
  /\ scans' = UpdateScan(scans, s, FailedUpdate)
  /\ pc' = [pc EXCEPT ![s] = "catching"]
  /\ UNCHANGED <<activeScans, issues, nextId, scanOptions, stage, found, proc,
                 progressPending, workDir, cause, cleanupLog, ran, failedStages,
                 cancelledAt, timedOut,
                 auxVars>>

\* A catch block without activeScans.delete.  The clone-failure property of
\* C8 must tell it from the real one.
CatchKeepsEntry(s) ==
  /\ pc[s] = "catching"
  /\ pc' = [pc EXCEPT ![s] = "cleanup"]
  /\ UNCHANGED <<scans, activeScans, issues, nextId, scanOptions, stage, found,
                 proc, progressPending, workDir, cause, cleanupLog, ran,
                 failedStages, cancelledAt, timedOut,
                 auxVars>>

\* performScan's catch block: activeScans.delete and rethrow; the finally
\* block calls cleanup before the rejection leaves performScan.
CatchUntrack(s) ==
  /\ pc[s] = "catching"
  /\ activeScans' = MapDelete(activeScans, s)
  /\ pc' = [pc EXCEPT ![s] = "cleanup"]
  /\ UNCHANGED <<scans, issues, nextId, scanOptions, stage, found, proc,
                 progressPending, workDir, cause, cleanupLog, ran, failedStages,
                 cancelledAt, timedOut,
                 auxVars>>

\* A cleanup without the try/catch: a failed removal is thrown into the
\* finally block.  The cleanup property of C7 must tell it from the real one.
CleanupRethrows(ok) == ~ok

\* GitHubService.cleanup wraps fs.rm in try/catch and only logs: nothing is
\* thrown to the finally block, whether the removal worked (ok) or not.
CleanupThrows(ok) == FALSE

\* GitHubService.cleanup: fs.rm(tempDir) returned; a failure is logged and
\* swallowed.  performScan then ends (its locals are gone), rejecting iff
\* the try block threw (or the finally block did).
CleanupDone(s, ok) ==
  LET err == IF CleanupThrows(ok) THEN "cleanup" ELSE cause[s]
  IN  /\ Quiet
      /\ pc[s] = "cleanup"
      /\ workDir' = [workDir EXCEPT ![s] = IF ok THEN "removed" ELSE @]
      /\ cleanupLog' = [cleanupLog EXCEPT ![s] = IF ok THEN "ok" ELSE "failed"]
      /\ cause' = [cause EXCEPT ![s] = err]
      /\ pc' = [pc EXCEPT ![s] = IF err = "none" THEN "done" ELSE "rejected"]
      /\ stage' = [stage EXCEPT ![s] = 0]
      /\ found' = [found EXCEPT ![s] = <<>>]
      /\ UNCHANGED <<scans, activeScans, issues, nextId, scanOptions, proc,
                     progressPending, ran, failedStages, cancelledAt, timedOut,
                 auxVars>>

\* The .catch attached to performScan in POST /api/scans: the record is
\* marked failed once more and the live entry deleted.
RejectHandler(s) ==
  /\ pc[s] = "rejected"
  /\ scans' = UpdateScan(scans, s, FailedUpdate)
  /\ activeScans' = MapDelete(activeScans, s)
  /\ pc' = [pc EXCEPT ![s] = "done"]
  /\ UNCHANGED <<issues, nextId, scanOptions, stage, found, proc,
                 progressPending, workDir, cause, cleanupLog, ran, failedStages,
                 cancelledAt, timedOut,
                 auxVars>>

\* ------------------------------------------- POST /api/scans/:id/cancel

\* The cancel handler: activeScans.delete, storage.updateScan(failed).  The
\* background task is neither told nor stopped.
Cancel(s) ==
  /\ Quiet
  /\ activeScans' = MapDelete(activeScans, s)
  /\ scans' = UpdateScan(scans, s, FailedUpdate)
  /\ cancelledAt' =
       [cancelledAt EXCEPT
          ![s] = IF @ = "never" /\ s \in DOMAIN scans
                 THEN (IF pc[s] = "done" THEN "finished" ELSE "running")
                 ELSE @]
  /\ UNCHANGED <<issues, nextId, taskVars, auxVars>>


\* ------------------------------------------------------- specifications

\* The enabled-tool sets submitted when several sessions run side by side.
OptionChoices ==
  {{"eslint", "semgrep"}, {"npmAudit", "deepAnalysis"}}

\* Every step session s can take, its scan submitted with one of the sets
\* Opts and its tools ending with one of Results.
SessionStep(s, Opts, Results, Killed) ==
  \/ \E opts \in Opts : PostScan(s, opts)
  \/ TrackScan(s)
  \/ \E nameOk \in BOOLEAN : SetScanning(s, nameOk)
  \/ CloneOk(s)
  \/ \E left \in BOOLEAN : CloneFail(s, left)
  \/ CountOk(s)
  \/ CountFail(s)
  \/ ProgressCont(s)
  \/ AccessOk(s)
  \/ AccessFail(s)
  \/ \E res \in Results : ToolExit(s, res)
  \/ \E res \in Killed : ToolTimeout(s, res)
  \/ DeepReturn(s)
  \/ SaveIssues(s)
  \/ \E k \in 0 .. MaxFindings * Len(StageOrder) : SaveFail(s, k)
  \/ MarkCompleted(s)
  \/ Untrack(s)
  \/ CatchMarkFailed(s)
  \/ CatchUntrack(s)
  \/ \E ok \in BOOLEAN : CleanupDone(s, ok)
  \/ RejectHandler(s)
  \/ Cancel(s)

\* Several sessions side by side.
Next ==
  \E s \in Sessions : SessionStep(s, OptionChoices, ExecResults, TimeoutResults)

Spec == Init /\ [][Next]_vars


\* A tool that ran to its end and reported nothing.
CleanResults == {[err |-> FALSE, stdout |-> "json", n |-> 0]}

\* A tool that was killed before it wrote anything.
SilentKill == {[err |-> TRUE, stdout |-> "empty", n |-> 0]}

\* One session, submitted with any subset of the tools.
NextAnyOptions == SessionStep(1, SUBSET Tools, CleanResults, SilentKill)

SpecAnyOptions == Init /\ [][NextAnyOptions]_vars

\* Largest number of tools enabled in a scan whose tools may end in any way.
MaxEnabled == 2

\* One session, submitted with at most MaxEnabled tools enabled.
NextFewTools ==
  SessionStep(1, {o \in SUBSET Tools : Cardinality(o) <= MaxEnabled},
              ExecResults, TimeoutResults)

SpecFewTools == Init /\ [][NextFewTools]_vars


\* The first id a createIssue of this run can get when the store already
\* holds findings of earlier runs.
FirstFreshId == NumSessions * MaxPrior + 1

\* Findings stored by an earlier run under each session's id.
PriorIssues ==
  {CreateIssue((s - 1) * MaxPrior + k, s, "eslint") :
     s \in Sessions, k \in 1 .. MaxPrior}

\* The store already holds findings under the ids about to be scanned: the
\* case performScan's deleteIssuesByScan ("Clear any existing issues") is
\* written for.
InitRerun ==
  /\ scans = EmptyMap
  /\ activeScans = EmptyMap
  /\ issues = PriorIssues
  /\ nextId = FirstFreshId
  /\ InitTasks
  /\ AuxIdle

SpecRerun == InitRerun /\ [][Next]_vars

\* What the event loop guarantees session s: queued continuations run, fs
\* calls return, armed timers fire.  Nothing makes an external process
\* (git, find, a tool) end by itself, and no client has to send requests.
Fairness(s) ==
  /\ WF_vars(TrackScan(s))
  /\ WF_vars(\E nameOk \in BOOLEAN : SetScanning(s, nameOk))
  /\ WF_vars(ProgressCont(s))
  /\ WF_vars(AccessOk(s) \/ AccessFail(s))
  /\ WF_vars(\E res \in TimeoutResults : ToolTimeout(s, res))
  /\ WF_vars(DeepReturn(s))
  /\ WF_vars(SaveIssues(s) \/ \E k \in 0 .. MaxFindings * Len(StageOrder) : SaveFail(s, k))
  /\ WF_vars(MarkCompleted(s))
  /\ WF_vars(Untrack(s))
  /\ WF_vars(CatchMarkFailed(s))
  /\ WF_vars(CatchUntrack(s))
  /\ WF_vars(\E ok \in BOOLEAN : CleanupDone(s, ok))
  /\ WF_vars(RejectHandler(s))

FairSpecFewTools == SpecFewTools /\ Fairness(1)

\* ------------------------------------------------------------- the claims

Terminal == {"completed", "failed"}

\* The set of elements of a sequence.
Range(seq) == {seq[i] : i \in DOMAIN seq}

\* C1: a session cancelled while its background task was still running has
\* the durable status `failed` from the cancel on, in every later state; the
\* task's completion write does not turn it back to `completed`.
C1_CancelledStaysFailed ==
  \A s \in Sessions :
    cancelledAt[s] = "running" => s \in DOMAIN scans /\ scans[s].status = "failed"

\* C2: the durable status only moves pending -> scanning -> completed or
\* failed (a new record starts pending), and a terminal status is never
\* changed again by any operation.
C2_StatusLifecycle ==
  [][\A s \in Sessions :
       /\ s \in DOMAIN scans =>
            \/ scans'[s].status = scans[s].status
            \/ <<scans[s].status, scans'[s].status>> \in
                 {<<"pending", "scanning">>, <<"scanning", "completed">>,
                  <<"scanning", "failed">>}
       /\ s \notin DOMAIN scans /\ s \in DOMAIN scans' =>
            scans'[s].status = "pending"]_vars

\* C3: for every subset of enabled tools the progress of the durable record
\* and of the live entry stays within 0..100 and never decreases from one
\* state to the next; a live entry written anew (after a delete) is not
\* below the durable progress reached before, so it is not below any
\* earlier live value either, the live value never being ahead of the
\* durable one.
C3_ProgressMonotone ==
  [][\A s \in Sessions :
       /\ s \in DOMAIN scans' => scans'[s].progress \in 0 .. 100
       /\ s \in DOMAIN scans => scans'[s].progress >= scans[s].progress
       /\ s \in DOMAIN activeScans' =>
            /\ activeScans'[s].progress \in 0 .. 100
            /\ activeScans'[s].progress <= scans'[s].progress
       /\ s \in DOMAIN activeScans /\ s \in DOMAIN activeScans' =>
            activeScans'[s].progress >= activeScans[s].progress
       /\ s \in DOMAIN scans /\ s \notin DOMAIN activeScans
            /\ s \in DOMAIN activeScans' =>
            activeScans'[s].progress >= scans[s].progress]_vars

\* C3 witness: a scan with all nine tools enabled went through every
\* progress value up to the completion write.
C3_Witness ==
  /\ 1 \in DOMAIN scans
  /\ scans[1].progress = 100
  /\ Len(ran[1]) = Len(StageOrder)

\* C4: after a cancellation request the session has no live entry and its
\* durable record is `failed`, and nothing the still running background
\* task does later brings a live entry back.
C4_NoLiveEntryAfterCancel ==
  \A s \in Sessions :
    cancelledAt[s] # "never" =>
      s \notin DOMAIN activeScans /\ scans[s].status = "failed"

\* The order of the tool stages as the specification lists it.
C5_Order ==
  <<"eslint", "npmAudit", "securityPatterns", "semgrep", "trivy",
    "secretScan", "bandit", "safety", "deepAnalysis">>

\* The stages session s is to run: the enabled ones, in the listed order.
ExpectedStages(s) == SelectSeq(C5_Order, LAMBDA t : t \in scanOptions[s])

\* C5: the enabled stages run one after another in the listed order: the
\* stages started so far are an initial part of the enabled ones in that
\* order, at most one tool process is alive, it belongs to the stage started
\* last, and when scanDirectory returns every enabled stage has run.
C5_StagesSequential ==
  \A s \in Sessions :
    /\ Len(ran[s]) <= Len(ExpectedStages(s))
    /\ ran[s] = SubSeq(ExpectedStages(s), 1, Len(ran[s]))
    /\ Cardinality(proc[s]) <= 1
    /\ proc[s] # {} => ran[s] # <<>> /\ proc[s] = {ran[s][Len(ran[s])]}
    /\ pc[s] \in {"save", "saved", "completing"} => ran[s] = ExpectedStages(s)

\* C5 witness: all nine stages have run, in the listed order.
C5_Witness ==
  /\ pc[1] = "save"
  /\ ran[1] = C5_Order


\* The findings of stage t that session s holds: in scanDirectory's result
\* list or in the store.
Contributed(s, t) ==
  {j \in DOMAIN found[s] : found[s][j] = t}
    \cup {i.id : i \in {x \in GetIssuesByScan(issues, s) : x.source = t}}

C7_CleanupGuaranteed ==
  /\ \A s \in Sessions : pc[s] \in {"save", "catch"} ~> cleanupLog[s] # "none"
  /\ [](\A s \in Sessions : pc[s] \in {"rejected", "done"} => cleanupLog[s] # "none")
  /\ [][\A s \in Sessions :
          pc[s] = "cleanup" /\ pc'[s] # "cleanup" =>
            /\ scans' = scans
            /\ cause'[s] = cause[s]
            /\ cleanupLog'[s] = "ok" => workDir'[s] = "removed"
            /\ pc'[s] = IF cause[s] = "none" THEN "done" ELSE "rejected"]_vars

\* C7 witness: the removal failed, the directory is still there, and the
\* session ended `completed` all the same.
C7_Witness ==
  /\ pc[1] = "done"
  /\ cleanupLog[1] = "failed"
  /\ workDir[1] = "present"
  /\ scans[1].status = "completed"

\* C8: when cloning (or preparing the clone directory) fails, no tool stage
\* runs, the status is never `completed`, it is `failed` and the live entry
\* is gone once the catch block has run, and the task does not end before
\* cleanup was executed.
C8_CloneFailureAborts ==
  \A s \in Sessions :
    cause[s] = "clone" =>
      /\ ran[s] = <<>>
      /\ proc[s] = {}
      /\ scans[s].status # "completed"
      /\ pc[s] \in {"cleanup", "rejected", "done"} =>
           scans[s].status = "failed" /\ s \notin DOMAIN activeScans
      /\ pc[s] \in {"rejected", "done"} => cleanupLog[s] # "none"

\* C8 witness: a task whose git clone failed has ended.
C8_Witness ==
  /\ pc[1] = "done"
  /\ cause[1] = "clone"
  /\ workDir[1] = "removed"

\* The number of findings of source t among a set of stored findings.
StoredFrom(set, t) == Cardinality({i \in set : i.source = t})

\* The number of findings of source t in a result list.
ListedFrom(list, t) == Cardinality({j \in DOMAIN list : list[j] = t})

\* C9: when the scan of session s saves its result while findings are
\* already stored for s, every one of those is gone afterwards, the
\* findings stored for s are exactly those of this run, and the findings of
\* every other session are as before.
C9_RerunReplacesFindings ==
  [][\A s \in Sessions :
       pc[s] = "save" /\ pc'[s] = "saved" =>
         /\ GetIssuesByScan(issues, s) \cap issues' = {}
         /\ Cardinality(GetIssuesByScan(issues', s)) = Len(found[s])
         /\ \A t \in Tools :
              StoredFrom(GetIssuesByScan(issues', s), t) = ListedFrom(found[s], t)
         /\ \A r \in Sessions \ {s} :
              GetIssuesByScan(issues', r) = GetIssuesByScan(issues, r)]_vars

\* C9 witness: session 1, which had stored findings, has saved the findings
\* of its new run; session 2 has not scanned and still holds its own.
C9_Witness ==
  /\ pc[1] = "saved"
  /\ found[1] # <<>>
  /\ \A i \in GetIssuesByScan(issues, 1) : i.id >= FirstFreshId
  /\ pc[2] = "idle"
  /\ GetIssuesByScan(issues, 2) # {}

\* C10: every external process a tool stage has started runs under a
\* timeout.
C10_ToolProcessesHaveTimeout ==
  \A s \in Sessions : \A t \in proc[s] : ToolTimeoutMs(t) > 0


\* ---------------------------------------------------------------- C11

\* What a Map holds under key k: <<value>>, or <<>> when the key is absent.
EntryOf(m, k) == IF k \in DOMAIN m THEN <<m[k]>> ELSE <<>>

\* The background task of session b took a step.
TaskMoved(b) ==
  pc'[b] # pc[b] \/ progressPending'[b] # progressPending[b]

\* C11: in every step, the live entry, the durable record and the stored
\* findings of a session b change only if the step is a step of b's own
\* request or background task, or a cancel request for b; and no step moves
\* the tasks of two sessions.
C11_SessionsIsolated ==
  [][/\ \A a, b \in Sessions : TaskMoved(a) /\ TaskMoved(b) => a = b
     /\ \A b \in Sessions :
          \/ /\ EntryOf(activeScans', b) = EntryOf(activeScans, b)
             /\ EntryOf(scans', b) = EntryOf(scans, b)
             /\ GetIssuesByScan(issues', b) = GetIssuesByScan(issues, b)
          \/ TaskMoved(b)
          \/ /\ \A a \in Sessions : ~TaskMoved(a)
             /\ b \notin DOMAIN activeScans'
             /\ EntryOf(scans', b) = EntryOf(UpdateScan(scans, b, FailedUpdate), b)
             /\ \A a \in Sessions \ {b} :
                  /\ EntryOf(activeScans', a) = EntryOf(activeScans, a)
                  /\ EntryOf(scans', a) = EntryOf(scans, a)
             /\ issues' = issues]_vars

\* C11 witness: two sessions are scanning side by side, session 1 has been
\* cancelled, and session 2 still has its live entry, its durable record in
\* `scanning` and a tool running.
C11_Witness ==
  /\ cancelledAt[1] = "running"
  /\ pc[1] = "exec"
  /\ pc[2] = "exec"
  /\ 2 \in DOMAIN activeScans
  /\ scans[2].status = "scanning"


\* ------------------------------------------- working-copy directory names

\* Number of distinct values crypto.randomBytes(8) is allowed to return:
\* 0 .. MaxRandom, so that equal draws happen.
MaxRandom == 1

RandomBytes == 0 .. MaxRandom

\* Longest repository name tried.
MaxNameLen == 2

\* Repository names as GitHub returns them (repoData.name): no separator.
RepoNames ==
  UNION {[1 .. n -> {"a", "."}] : n \in 1 .. MaxNameLen}

\* The scan variables, untouched by the steps below.
scanVars ==
  <<scans, activeScans, issues, nextId, pc, scanOptions, stage, found, proc,
    progressPending, workDir, cause, cleanupLog, ran, failedStages, cancelledAt,
    timedOut>>

RECURSIVE SplitFrom(_, _, _, _)
\* str.split('/') from position i on: segs are the finished segments, cur
\* the one being read.
SplitFrom(str, i, segs, cur) ==
  IF i > Len(str) THEN Append(segs, cur)
  ELSE IF str[i] = "/" THEN SplitFrom(str, i + 1, Append(segs, cur), <<>>)
  ELSE SplitFrom(str, i + 1, segs, Append(cur, str[i]))

\* The segments of a path string.
Segments(str) == SplitFrom(str, 1, <<>>, <<>>)

RECURSIVE NormalizeString(_, _, _, _)
\* normalizeString of path.normalize from segment i on: empty and "."
\* segments are dropped; ".." removes the segment before it, or is kept
\* when there is none to remove and the path is relative.
NormalizeString(segs, i, acc, allowAboveRoot) ==
  IF i > Len(segs) THEN acc
  ELSE IF segs[i] = <<>> \/ segs[i] = <<".">>
       THEN NormalizeString(segs, i + 1, acc, allowAboveRoot)
  ELSE IF segs[i] = <<".", ".">>
       THEN IF acc # <<>> /\ acc[Len(acc)] # <<".", ".">>
            THEN NormalizeString(segs, i + 1, SubSeq(acc, 1, Len(acc) - 1), allowAboveRoot)
            ELSE IF allowAboveRoot
            THEN NormalizeString(segs, i + 1, Append(acc, segs[i]), allowAboveRoot)
            ELSE NormalizeString(segs, i + 1, acc, allowAboveRoot)
  ELSE NormalizeString(segs, i + 1, Append(acc, segs[i]), allowAboveRoot)

RECURSIVE JoinSegments(_)
\* segs.join('/').
JoinSegments(segs) ==
  IF segs = <<>> THEN <<>>
  ELSE IF Len(segs) = 1 THEN segs[1]
  ELSE JoinSegments(SubSeq(segs, 1, Len(segs) - 1)) \o <<"/">> \o segs[Len(segs)]

\* path.normalize(p) for a non-empty p.
NormalizePath(p) ==
  LET isAbsolute == p[1] = "/"
      trailing   == p[Len(p)] = "/"
      body       == JoinSegments(NormalizeString(Segments(p), 1, <<>>, ~isAbsolute))
  IN  IF body = <<>>
      THEN IF isAbsolute THEN <<"/">>
           ELSE IF trailing THEN <<".", "/">> ELSE <<".">>
      ELSE (IF isAbsolute THEN <<"/">> ELSE <<>>) \o body
             \o (IF trailing THEN <<"/">> ELSE <<>>)

\* A sanitizer that removes one leading dot instead of the leading "../"
\* run.  The idempotence of C26 must tell it from the real one.
StripLeadingDot(str) ==
  IF str # <<>> /\ str[1] = "." THEN Tail(str) ELSE str

RECURSIVE StripLeadingTraversal(_)
\* str.replace(/^(\.\.[\/\\])+/, ''): the leading run of "../" is removed.
StripLeadingTraversal(str) ==
  IF Len(str) >= 3 /\ SubSeq(str, 1, 3) = <<".", ".", "/">>
  THEN StripLeadingTraversal(SubSeq(str, 4, Len(str)))
  ELSE str

\* The name contains "..".
HasDotDot(name) ==
  \E i \in 1 .. Len(name) - 1 : name[i] = "." /\ name[i + 1] = "."

\* .replace(/[^a-zA-Z0-9\-_.]/g, '_') on the characters tried.
ReplaceUnsafeChars(str) ==
  [i \in DOMAIN str |->
     IF str[i] \in {"a", "b", "-", "_", "."} THEN str[i] ELSE "_"]

\* isPathSafe on the characters tried: no "..", none of <>:"|?*.
IsPathSafe(inputPath) ==
  /\ ~HasDotDot(inputPath)
  /\ \A i \in DOMAIN inputPath : inputPath[i] \notin {"<", ">", ":", "|", "?", "*"}

\* SecurityUtils.sanitizeRepositoryName of server/utils/security.ts:
\* <<"throw">> for an empty name or an empty result, otherwise <<"ok", the
\* normalised name without its leading "../" run and with every character
\* outside [a-zA-Z0-9-_.] replaced by "_">>.
SanitizeRepositoryNameBasic(name) ==
  IF name = <<>> THEN <<"throw">>
  ELSE LET safeName == ReplaceUnsafeChars(StripLeadingTraversal(NormalizePath(name)))
       IN  IF safeName = <<>> THEN <<"throw">> ELSE <<"ok", safeName>>

\* SecurityUtils.sanitizeRepositoryName with the checks before and after:
\* a name that is not path-safe throws, and so does a result that contains
\* ".." or starts with ".".
SanitizeRepositoryName(name) ==
  IF name = <<>> \/ ~IsPathSafe(name) THEN <<"throw">>
  ELSE LET safe == SanitizeRepositoryNameBasic(name)
       IN  IF safe[1] = "throw" \/ HasDotDot(safe[2]) \/ safe[2][1] = "."
           THEN <<"throw">> ELSE safe

\* SecurityUtils.generateSecureDirectory(prefix, suffix) with the random
\* bytes r: `${prefix}-${hex(r)}-${suffix}`, kept as its three parts (the
\* hex field has a fixed width, so the parts determine the string and the
\* string the parts).  <<>> as suffix stands for "no suffix".
GenerateSecureDirectory(prefix, r, suffix) ==
  LET pre == SanitizeRepositoryName(prefix)
      suf == IF suffix = <<>> THEN <<"ok", <<>>>> ELSE SanitizeRepositoryName(suffix)
  IN  IF pre[1] = "throw" \/ suf[1] = "throw" THEN <<"throw">>
      ELSE <<"ok", <<pre[2], r, suf[2]>>>>

\* The scan id of session s as a name: randomUUID never repeats, and a UUID
\* ([0-9a-f-]) passes validateScanId and sanitizeRepositoryName unchanged.
ScanIdName(s) == [i \in 1 .. s |-> "a"]

\* The prefix 'secure-scan', shortened to one safe character.
ScanPrefix == <<"a">>

\* A performScan whose directory name lacks the scan id (generateSecure-
\* Directory called without suffix).  The uniqueness property of C12 must
\* tell it from the real one.
TempDirNameNoId(s, r) == GenerateSecureDirectory(ScanPrefix, r, <<>>)

\* performScan: tempDir = tmpdir/generateSecureDirectory('secure-scan',
\* validatedScanId).
TempDirName(s, r) == GenerateSecureDirectory(ScanPrefix, r, ScanIdName(s))

\* performScan up to its try block: the session's tempDir is computed.
ComputeTempDir(s, r) ==
  /\ dirs[s] = <<>>
  /\ TempDirName(s, r)[1] = "ok"
  /\ dirs' = [dirs EXCEPT ![s] = [temp |-> TempDirName(s, r)[2], clone |-> <<>>,
                                  alive |-> TRUE]]
  /\ UNCHANGED <<scanVars, rem, diffCase, guardCase, stored, branch, models>>

\* cloneRepository: cloneDir = targetDir/generateSecureDirectory(
\* repository.name); a throw (unsafe name) ends the session.
ComputeCloneDir(s, name, r) ==
  LET d == GenerateSecureDirectory(name, r, <<>>)
  IN  /\ dirs[s] # <<>>
      /\ dirs[s].alive
      /\ dirs[s].clone = <<>>
      /\ dirs' = [dirs EXCEPT
                    ![s] = IF d[1] = "ok"
                           THEN [@ EXCEPT !.clone = <<dirs[s].temp, d[2]>>]
                           ELSE [@ EXCEPT !.alive = FALSE]]
      /\ UNCHANGED <<scanVars, rem, diffCase, guardCase, stored, branch, models>>

\* performScan's finally block: the session is over.
ReleaseDir(s) ==
  /\ dirs[s] # <<>>
  /\ dirs[s].alive
  /\ dirs[s].clone # <<>>
  /\ dirs' = [dirs EXCEPT ![s] = [@ EXCEPT !.alive = FALSE]]
  /\ UNCHANGED <<scanVars, rem, diffCase, guardCase, stored, branch, models>>

NextDirs ==
  \E s \in Sessions :
    \/ \E r \in RandomBytes : ComputeTempDir(s, r)
    \/ \E name \in RepoNames, r \in RandomBytes : ComputeCloneDir(s, name, r)
    \/ ReleaseDir(s)

SpecDirs == Init /\ [][NextDirs]_vars

\* C12: two different sessions that are alive at the same time have
\* different temp directories and different clone directories, whatever
\* the random bytes drawn and the repositories scanned.
C12_DistinctWorkingDirs ==
  \A a, b \in Sessions :
    a # b /\ dirs[a] # <<>> /\ dirs[b] # <<>> /\ dirs[a].alive /\ dirs[b].alive =>
      /\ dirs[a].temp # dirs[b].temp
      /\ dirs[a].clone # <<>> /\ dirs[b].clone # <<>> => dirs[a].clone # dirs[b].clone

\* C12 witness: two sessions alive on clones of the same repository, and
\* every random draw of the one equals the draw of the other.
C12_Witness ==
  /\ dirs[1] # <<>> /\ dirs[2] # <<>>
  /\ dirs[1].alive /\ dirs[2].alive
  /\ dirs[1].clone # <<>> /\ dirs[2].clone # <<>>
  /\ dirs[1].temp[2] = dirs[2].temp[2]
  /\ dirs[1].clone[2] = dirs[2].clone[2]


\* ------------------------------------------------- paths (POSIX, path.*)

\* Longest candidate path tried.
MaxPathLen == 4

\* Longest base directory tried.
MaxBaseLen == 2

\* The characters paths are made of: the separator, the dot and two letters.
PathChars == {"/", ".", "a", "b"}

\* The strings over PathChars of 1 .. n characters.
PathStrings(n) == UNION {[1 .. k -> PathChars] : k \in 1 .. n}

\* process.cwd() of the server: the root, or a directory below it.
WorkingDirs == {<<"/">>, <<"/", "a">>}

RECURSIVE NormalizeFrom(_, _, _)
\* Normalisation of an absolute path's segments: empty and "." segments are
\* dropped, ".." removes the segment before it (and nothing at the root).
NormalizeFrom(segs, i, acc) ==
  IF i > Len(segs) THEN acc
  ELSE IF segs[i] = <<>> \/ segs[i] = <<".">> THEN NormalizeFrom(segs, i + 1, acc)
  ELSE IF segs[i] = <<".", ".">>
       THEN NormalizeFrom(segs, i + 1,
                          IF acc = <<>> THEN acc ELSE SubSeq(acc, 1, Len(acc) - 1))
  ELSE NormalizeFrom(segs, i + 1, Append(acc, segs[i]))

RECURSIVE Render(_)
\* The absolute path string of a segment list: "/" for the root.
Render(segs) ==
  IF segs = <<>> THEN <<"/">>
  ELSE IF Len(segs) = 1 THEN <<"/">> \o segs[1]
  ELSE Render(SubSeq(segs, 1, Len(segs) - 1)) \o <<"/">> \o segs[Len(segs)]

\* path.resolve(p) in a process whose working directory is cwd.
Resolve(cwd, p) ==
  LET full == IF p # <<>> /\ p[1] = "/" THEN p ELSE cwd \o <<"/">> \o p
  IN  Render(NormalizeFrom(Segments(full), 1, <<>>))

\* String.prototype.startsWith.
StartsWith(str, prefix) ==
  Len(prefix) <= Len(str) /\ SubSeq(str, 1, Len(prefix)) = prefix

\* A check with a naive string prefix (no separator appended to the base):
\* "/ab" passes for the base "/a".  The containment property of C19 must
\* tell it from the real one.
IsWithinNaive(resolvedBase, resolvedFile) ==
  StartsWith(resolvedFile, resolvedBase)

\* validatePath's containment test:
\* resolvedFile.startsWith(resolvedBase + path.sep) || resolvedFile === resolvedBase.
IsWithin(resolvedBase, resolvedFile) ==
  StartsWith(resolvedFile, resolvedBase \o <<"/">>) \/ resolvedFile = resolvedBase

\* SecurityUtils.validatePath of server/utils/security.ts: <<"throw">>, or
\* <<"ok", the resolved file path>>.
ValidatePathBasic(cwd, baseDirectory, filePath) ==
  IF baseDirectory = <<>> \/ filePath = <<>> THEN <<"throw">>
  ELSE LET resolvedBase == Resolve(cwd, baseDirectory)
           resolvedFile == Resolve(cwd, filePath)
       IN  IF IsWithin(resolvedBase, resolvedFile) THEN <<"ok", resolvedFile>>
           ELSE <<"throw">>

\* SecurityUtils.validatePath with the additional input validation: any ".."
\* in either argument is rejected before the paths are resolved.
ValidatePath(cwd, baseDirectory, filePath) ==
  IF baseDirectory = <<>> \/ filePath = <<>> THEN <<"throw">>
  ELSE IF HasDotDot(filePath) \/ HasDotDot(baseDirectory) THEN <<"throw">>
  ELSE ValidatePathBasic(cwd, baseDirectory, filePath)

\* The calls under study: a working directory, a base and a candidate.
InitGuard ==
  /\ ScanIdle
  /\ guardCase \in
       {[at |-> "call", cwd |-> c, base |-> b, file |-> f] :
          c \in WorkingDirs, b \in PathStrings(MaxBaseLen), f \in PathStrings(MaxPathLen)}
  /\ DirsIdle /\ RemIdle /\ DiffIdle /\ StoredIdle /\ BranchIdle /\ ModelsIdle

\* validatePath (with the input validation) is called, and called again on
\* what it returned.
CallValidatePath ==
  /\ guardCase.at = "call"
  /\ LET out == ValidatePath(guardCase.cwd, guardCase.base, guardCase.file)
     IN  guardCase' =
           [at |-> "strict", cwd |-> guardCase.cwd, base |-> guardCase.base,
            file |-> guardCase.file, out |-> out,
            again |-> IF out[1] = "ok"
                      THEN ValidatePath(guardCase.cwd, guardCase.base, out[2])
                      ELSE out]
  /\ UNCHANGED <<scanVars, dirs, rem, diffCase, stored, branch, models>>

\* The validatePath of server/utils/security.ts is called likewise.
CallValidatePathBasic ==
  /\ guardCase.at = "call"
  /\ LET out == ValidatePathBasic(guardCase.cwd, guardCase.base, guardCase.file)
     IN  guardCase' =
           [at |-> "basic", cwd |-> guardCase.cwd, base |-> guardCase.base,
            file |-> guardCase.file, out |-> out,
            again |-> IF out[1] = "ok"
                      THEN ValidatePathBasic(guardCase.cwd, guardCase.base, out[2])
                      ELSE out]
  /\ UNCHANGED <<scanVars, dirs, rem, diffCase, stored, branch, models>>

NextGuard == CallValidatePath \/ CallValidatePathBasic

SpecGuard == InitGuard /\ [][NextGuard]_vars


\* ---------------------------------------------------------------- C19

\* The call is over.
GuardDone == guardCase.at \in {"strict", "basic"}

\* The candidate of the call resolves to the base or to a descendant of it:
\* the segments of the resolved base are a prefix of the candidate's.
ResolvesInside ==
  LET b == NormalizeFrom(Segments(Resolve(guardCase.cwd, guardCase.base)), 1, <<>>)
      f == NormalizeFrom(Segments(Resolve(guardCase.cwd, guardCase.file)), 1, <<>>)
  IN  Len(b) <= Len(f) /\ SubSeq(f, 1, Len(b)) = b

RepoPath == <<"/", "a">>

\* The values of issue.file: none (<<>>), or whatever path string the
\* adapter stored.
IssueFiles == {<<>>} \cup PathStrings(MaxPathLen)

\* path.join(a, b) for an absolute a: the normalised concatenation, which
\* keeps a trailing separator.
PathJoin(a, b) ==
  LET full == IF b = <<>> THEN a ELSE a \o <<"/">> \o b
      r    == Render(NormalizeFrom(Segments(full), 1, <<>>))
  IN  IF full[Len(full)] = "/" /\ r # <<"/">> THEN r \o <<"/">> ELSE r

\* path.relative(from, to) for a resolved path to inside from: what follows
\* the root, the empty string for the root itself.
PathRelative(from, to) ==
  IF to = from THEN <<>> ELSE SubSeq(to, Len(from) + 2, Len(to))

\* fs.readFile and fs.writeFile can succeed on p only if p is not a
\* directory: not the root, not written with a trailing separator, and not
\* the working copy's root or a directory above it.
MayBeFile(p) ==
  /\ p # <<"/">>
  /\ p[Len(p)] # "/"
  /\ ~StartsWith(RepoPath \o <<"/">>, p \o <<"/">>)

\* A remediation that treats every finding as having a file.  The property
\* of C13 must tell it from the real one.
HasFileAlways(file) == TRUE

\* The test `!issue.file` of remediateIssue and of the create-pr handler,
\* negated.
HasFile(file) == file # <<>>

\* The RemediationResult values.
Success == [success |-> TRUE, error |-> "none"]

Failure(e) == [success |-> FALSE, error |-> e]

\* A handler that records nothing when the attempt fails.  The property of
\* C14 must tell it from the real one.
StatusAfterKept(result, status) ==
  IF result.success THEN "success" ELSE status

\* The remediationStatus the remediate handler stores after the attempt.
StatusAfter(result, status) ==
  IF result.success THEN "success" ELSE "failed"

\* A create-pr handler without its precondition.  The property of C15 must
\* tell it from the real one.
CanCreatePrAlways(code, status) == TRUE

\* The precondition of the create-pr handler:
\* issue.remediatedCode && issue.remediationStatus === "success".
CanCreatePr(code, status) == code /\ status = "success"

\* Most pull requests GitHub accepts for the finding.
MaxPrs == 2

\* MemStorage.updateIssue: { ...issue, ...updates }.
UpdateIssue(issue, updates) ==
  [k \in DOMAIN issue |-> IF k \in DOMAIN updates THEN updates[k] ELSE issue[k]]

\* A success branch that also clears the pull-request fields.  The frame
\* property of C25 must tell it from the real one.
RemediationSuccessUpdateClearingPr(result, status) ==
  [status |-> StatusAfter(result, status), code |-> TRUE, remediatedAt |-> TRUE,
   prUrl |-> 0]

\* The update the remediate handler stores after a successful attempt:
\* remediationStatus, remediatedCode, remediatedAt.
RemediationSuccessUpdate(result, status) ==
  [status |-> StatusAfter(result, status), code |-> TRUE, remediatedAt |-> TRUE]

\* A failure branch that also drops the remediated code.  The property of
\* C29 must tell it from the real one.
RemediationFailedUpdateClearingCode(result, status) ==
  [status |-> StatusAfter(result, status), code |-> FALSE, remediatedAt |-> TRUE]

\* The update the remediate handler stores after a failed attempt:
\* remediationStatus and remediatedAt.
RemediationFailedUpdate(result, status) ==
  [status |-> StatusAfter(result, status), remediatedAt |-> TRUE]

\* A createPullRequest that swallows the error and returns a result without
\* a number.  The property of C24 must tell it from the real one.
PullRequestOutcomeSwallowed(made, n) ==
  IF made THEN <<"ok", n + 1>> ELSE <<"ok", 0>>

\* createPullRequest: the number of the pull request GitHub made (the n-th
\* so far), or the rethrown error.
PullRequestOutcome(made, n) ==
  IF made THEN <<"ok", n + 1>> ELSE <<"throw">>

\* A request starts with nothing read, sent, written, called or answered.
NewRequest(handler) ==
  [rem EXCEPT !.handler = handler, !.copy = "none", !.reads = {},
              !.llmCalls = 0, !.writes = {}, !.git = {}, !.api = {},
              !.returned = FALSE, !.result = Failure("none"), !.response = 0,
              !.updates = 0, !.created = FALSE, !.pr = 0, !.prBefore = rem.prUrl]

\* createIssue stores the adapter's fields (severity stands for all of them
\* but the file) and no remediation and no pull request yet.
InitRemediation ==
  /\ ScanIdle
  /\ rem \in {[pc |-> "request", handler |-> "none",
               severity |-> "high", file |-> f,
               status |-> "null", code |-> FALSE, remediatedAt |-> FALSE,
               prUrl |-> 0, github |-> 0,
               copy |-> "none", reads |-> {}, llmCalls |-> 0, writes |-> {},
               git |-> {}, api |-> {},
               returned |-> FALSE, result |-> Failure("none"),
               response |-> 0, updates |-> 0, created |-> FALSE, pr |-> 0,
               prBefore |-> 0] : f \in IssueFiles}
  /\ DirsIdle /\ DiffIdle /\ GuardIdle /\ StoredIdle /\ BranchIdle /\ ModelsIdle

\* POST /api/issues/:id/remediate up to the clone: the finding and its scan
\* are found; without a default model the answer is 400.
RemediateRequest(hasModel) ==
  /\ rem.pc \in {"request", "done"}
  /\ rem' = IF hasModel
            THEN [NewRequest("remediate") EXCEPT !.pc = "clone"]
            ELSE [NewRequest("remediate") EXCEPT !.pc = "done", !.response = 400]
  /\ UNCHANGED <<scanVars, dirs, diffCase, guardCase, stored, branch, models>>

\* validateAndParseUrl and cloneRepository of the remediate handler: a
\* failure is answered 500 by the outer catch.
RemediateClone(ok) ==
  /\ rem.pc = "clone" /\ rem.handler = "remediate"
  /\ rem' = IF ok THEN [rem EXCEPT !.pc = "attempt", !.copy = "remediate"]
            ELSE [rem EXCEPT !.pc = "done", !.response = 500]
  /\ UNCHANGED <<scanVars, dirs, diffCase, guardCase, stored, branch, models>>

\* remediateIssue up to the read: a finding without a file is a failure
\* result; otherwise the file at path.join(repoPath, issue.file) is read.
RemediateIssue ==
  /\ rem.pc = "attempt"
  /\ rem' = IF ~HasFile(rem.file)
            THEN [rem EXCEPT !.pc = "record", !.returned = TRUE,
                             !.result = Failure("Issue does not have an associated file")]
            ELSE [rem EXCEPT !.pc = "read"]
  /\ UNCHANGED <<scanVars, dirs, diffCase, guardCase, stored, branch, models>>

\* fs.readFile(filePath): its content goes into the prompt and the model is
\* called, or the read fails and the result is a failure.
ReadFile(ok) ==
  /\ rem.pc = "read"
  /\ LET filePath == PathJoin(RepoPath, rem.file)
     IN  /\ ok => MayBeFile(filePath)
         /\ rem' = IF ok
                   THEN [rem EXCEPT !.pc = "chat", !.reads = {filePath},
                                    !.llmCalls = @ + 1]
                   ELSE [rem EXCEPT !.pc = "record", !.returned = TRUE,
                                    !.result = Failure("Failed to read file")]
  /\ UNCHANGED <<scanVars, dirs, diffCase, guardCase, stored, branch, models>>

\* llmService.chat returns code, returns nothing usable, or throws into the
\* outer catch of remediateIssue.
LlmChat(outcome) ==
  /\ rem.pc = "chat"
  /\ rem' = [rem EXCEPT !.pc = "record", !.returned = TRUE,
               !.result = CASE outcome = "code" -> Success
                            [] outcome = "empty" -> Failure("LLM returned empty response")
                            [] OTHER -> Failure("Remediation failed")]
  /\ UNCHANGED <<scanVars, dirs, diffCase, guardCase, stored, branch, models>>

\* The remediate handler stores the outcome on the finding and answers.
RemediateRecord ==
  /\ rem.pc = "record"
  /\ LET updates == IF rem.result.success
                    THEN RemediationSuccessUpdate(rem.result, rem.status)
                    ELSE RemediationFailedUpdate(rem.result, rem.status)
     IN  rem' = [UpdateIssue(rem, updates) EXCEPT
                   !.pc = "cleanup", !.updates = @ + 1,
                   !.response = IF rem.result.success THEN 200 ELSE 400]
  /\ UNCHANGED <<scanVars, dirs, diffCase, guardCase, stored, branch, models>>

\* finally { cleanup(tempDir) } of the remediate handler.
RemediateCleanup ==
  /\ rem.pc = "cleanup" /\ rem.handler = "remediate"
  /\ rem' = [rem EXCEPT !.pc = "done", !.copy = "none"]
  /\ UNCHANGED <<scanVars, dirs, diffCase, guardCase, stored, branch, models>>

\* A create-pr handler that clones for every finding it is asked about.
\* The property of C28 must tell it from the real one.
CreatePrRequestUnchecked ==
  /\ rem.pc \in {"request", "done"}
  /\ rem' = [NewRequest("pr") EXCEPT !.pc = "clone"]
  /\ UNCHANGED <<scanVars, dirs, diffCase, guardCase, stored, branch, models>>

\* POST /api/issues/:id/create-pr up to the clone: a finding that is not
\* successfully remediated is answered 400.
CreatePrRequest ==
  /\ rem.pc \in {"request", "done"}
  /\ rem' = IF CanCreatePr(rem.code, rem.status)
            THEN [NewRequest("pr") EXCEPT !.pc = "clone"]
            ELSE [NewRequest("pr") EXCEPT !.pc = "done", !.response = 400]
  /\ UNCHANGED <<scanVars, dirs, diffCase, guardCase, stored, branch, models>>

\* validateAndParseUrl and cloneRepository of the create-pr handler.
CreatePrClone(ok) ==
  /\ rem.pc = "clone" /\ rem.handler = "pr"
  /\ rem' = IF ok THEN [rem EXCEPT !.pc = "setup", !.copy = "pr"]
            ELSE [rem EXCEPT !.pc = "done", !.response = 500]
  /\ UNCHANGED <<scanVars, dirs, diffCase, guardCase, stored, branch, models>>

\* getAuthenticatedUser and setupGitUser: a throw leaves through finally.
CreatePrSetup(ok) ==
  /\ rem.pc = "setup"
  /\ rem' = IF ok
            THEN [rem EXCEPT !.pc = "apply", !.api = @ \cup {"users.getAuthenticated"},
                             !.git = @ \cup {"config"}]
            ELSE [rem EXCEPT !.pc = "cleanup", !.api = @ \cup {"users.getAuthenticated"},
                             !.response = 500]
  /\ UNCHANGED <<scanVars, dirs, diffCase, guardCase, stored, branch, models>>

\* The apply step: the finding's path is validated against the working
\* copy, made relative, and applyFix writes the remediated code there.
CreatePrApply(ok) ==
  /\ rem.pc = "apply"
  /\ LET sanitized == IF HasFile(rem.file)
                      THEN ValidatePathBasic(RepoPath, RepoPath,
                                             PathJoin(RepoPath, rem.file))
                      ELSE <<"throw">>
         target    == PathJoin(RepoPath, PathRelative(RepoPath, sanitized[2]))
     IN  IF sanitized[1] = "ok" /\ ok /\ MayBeFile(target)
         THEN rem' = [rem EXCEPT !.pc = "publish", !.writes = {target}]
         ELSE rem' = [rem EXCEPT !.pc = "cleanup", !.response = 500]
  /\ UNCHANGED <<scanVars, dirs, diffCase, guardCase, stored, branch, models>>

\* createBranchAndCommit in the handler: a git failure is rethrown.
CreatePrCommit(ok) ==
  /\ rem.pc = "publish"
  /\ rem' = IF ok THEN [rem EXCEPT !.pc = "push", !.git = @ \cup {"commit"}]
            ELSE [rem EXCEPT !.pc = "cleanup", !.response = 500]
  /\ UNCHANGED <<scanVars, dirs, diffCase, guardCase, stored, branch, models>>

\* pushBranch in the handler: a git failure is rethrown.
CreatePrPush(ok) ==
  /\ rem.pc = "push"
  /\ rem' = IF ok THEN [rem EXCEPT !.pc = "pulls", !.git = @ \cup {"push"}]
            ELSE [rem EXCEPT !.pc = "cleanup", !.response = 500]
  /\ UNCHANGED <<scanVars, dirs, diffCase, guardCase, stored, branch, models>>

\* createPullRequest in the handler: GitHub makes the pull request, or
\* refuses and the error is rethrown.
CreatePullRequest(ok) ==
  /\ rem.pc = "pulls"
  /\ LET made    == ok /\ rem.github < MaxPrs
         outcome == PullRequestOutcome(made, rem.github)
     IN  rem' = IF outcome[1] = "ok"
                THEN [rem EXCEPT !.pc = "update", !.api = @ \cup {"pulls.create"},
                                 !.created = made, !.pr = outcome[2],
                                 !.github = IF made THEN @ + 1 ELSE @]
                ELSE [rem EXCEPT !.pc = "cleanup", !.api = @ \cup {"pulls.create"},
                                 !.response = 500]
  /\ UNCHANGED <<scanVars, dirs, diffCase, guardCase, stored, branch, models>>

\* updateIssue(issueId, { prUrl, prNumber }) and the answer of the handler.
CreatePrUpdate ==
  /\ rem.pc = "update"
  /\ rem' = [UpdateIssue(rem, [prUrl |-> rem.pr]) EXCEPT
               !.pc = "cleanup", !.updates = @ + 1, !.response = 200]
  /\ UNCHANGED <<scanVars, dirs, diffCase, guardCase, stored, branch, models>>

\* finally { cleanup(tempDir) } of the create-pr handler.
CreatePrCleanup ==
  /\ rem.pc = "cleanup" /\ rem.handler = "pr"
  /\ rem' = [rem EXCEPT !.pc = "done", !.copy = "none"]
  /\ UNCHANGED <<scanVars, dirs, diffCase, guardCase, stored, branch, models>>

NextRemediation ==
  \/ \E hasModel \in BOOLEAN : RemediateRequest(hasModel)
  \/ \E ok \in BOOLEAN : RemediateClone(ok)
  \/ RemediateIssue
  \/ \E ok \in BOOLEAN : ReadFile(ok)
  \/ \E outcome \in {"code", "empty", "throw"} : LlmChat(outcome)
  \/ RemediateRecord
  \/ RemediateCleanup
  \/ CreatePrRequest
  \/ \E ok \in BOOLEAN : CreatePrClone(ok)
  \/ \E ok \in BOOLEAN : CreatePrSetup(ok)
  \/ \E ok \in BOOLEAN : CreatePrApply(ok)
  \/ \E ok \in BOOLEAN : CreatePrCommit(ok)
  \/ \E ok \in BOOLEAN : CreatePrPush(ok)
  \/ \E ok \in BOOLEAN : CreatePullRequest(ok)
  \/ CreatePrUpdate
  \/ CreatePrCleanup

SpecRemediation == InitRemediation /\ [][NextRemediation]_vars

\* The remediate handler has its result and has not yet answered, or has
\* answered and cleaned up.
AttemptOver ==
  rem.handler = "remediate" /\ rem.returned /\ rem.pc \in {"cleanup", "done"}

\* C13: a remediation of a finding with no associated file never reads a
\* file and never calls the model, and the result it returns is a failure
\* whose error says that the finding has no associated file.
C13_NoFileFailsWithoutModelCall ==
  rem.handler = "remediate" /\ rem.file = <<>> =>
    /\ rem.llmCalls = 0 /\ rem.reads = {}
    /\ rem.pc \notin {"read", "chat"}
    /\ rem.returned =>
         rem.result = [success |-> FALSE,
                       error |-> "Issue does not have an associated file"]

C13_Witness ==
  /\ rem.handler = "remediate" /\ rem.file = <<>>
  /\ rem.returned /\ rem.llmCalls = 0 /\ rem.pc = "done"

\* C14: a remediation attempt that fails (unreadable file, failed model
\* call, empty model output, no file) ends in a structured failure result,
\* never in a throw that the handler answers with 500, and once the handler
\* has recorded it the finding's remediation status is "failed", whatever it
\* was before.
C14_FailedAttemptRecorded ==
  /\ rem.handler = "remediate" /\ rem.copy = "remediate" => rem.response # 500
  /\ rem.handler = "remediate" /\ rem.response = 500 => ~rem.returned
  /\ AttemptOver /\ ~rem.result.success =>
       /\ rem.result.error \in {"Issue does not have an associated file",
                                "Failed to read file",
                                "LLM returned empty response",
                                "Remediation failed"}
       /\ rem.status = "failed"
       /\ rem.response = 400

C14_Witness ==
  /\ AttemptOver /\ rem.result = Failure("Remediation failed")
  /\ rem.code /\ rem.status = "failed"

\* C15: the set of written files changes only in the apply step of the
\* create-pr handler, on the working copy that handler cloned, for a finding
\* whose stored remediation succeeded; the remediate handler writes nothing.
C15_OnlyApplyWrites ==
  [][/\ rem.handler = "remediate" /\ rem'.handler = "remediate" =>
          rem'.writes = {} /\ rem.writes = {}
     /\ rem'.writes # rem.writes /\ rem'.writes # {} =>
          /\ rem.handler = "pr" /\ rem.pc = "apply" /\ rem.copy = "pr"
          /\ rem.status = "success" /\ rem.code
          /\ \A p \in rem'.writes : IsWithin(RepoPath, p)]_vars

C15_Witness ==
  rem.handler = "pr" /\ rem.pc = "publish" /\ rem.writes = {<<"/", "a", "/", "b">>}

\* C16: every file a remediation reads lies inside the working copy, and a
\* finding whose path resolves outside it is neither read nor sent to the
\* model.
C16_ReadsInsideWorkingCopy ==
  rem.handler = "remediate" =>
    /\ \A p \in rem.reads : IsWithin(RepoPath, p)
    /\ rem.file # <<>> /\ ~IsWithin(RepoPath, PathJoin(RepoPath, rem.file)) =>
         rem.reads = {} /\ rem.llmCalls = 0

\* The create-pr handler has left its try block or has answered.
PrRequestOver == rem.handler = "pr" /\ rem.pc \in {"cleanup", "done"}

\* C24: a create-pr request in which a publishing step failed is answered
\* with a failure and leaves the finding's pull-request field as it was;
\* the field changes, and success is answered, only in a request in which
\* GitHub has made the pull request, and then the field names that one.
C24_PublishFailureReported ==
  rem.handler = "pr" =>
    /\ rem.response = 200 => rem.created /\ rem.prUrl = rem.pr /\ rem.pr = rem.github
    /\ rem.prUrl # rem.prBefore => rem.created /\ rem.pc \in {"cleanup", "done"}
    /\ PrRequestOver /\ ~rem.created =>
         rem.response \in {400, 500} /\ rem.prUrl = rem.prBefore
    /\ rem.created => "pulls.create" \in rem.api /\ "push" \in rem.git

C24_Witness ==
  /\ rem.handler = "pr" /\ rem.pc = "done" /\ rem.response = 500
  /\ "push" \in rem.git /\ "pulls.create" \in rem.api
  /\ rem.prBefore = 1 /\ rem.prUrl = 1 /\ rem.github = 1

\* The remediation lifecycle fields of the finding.
Lifecycle(r) == <<r.status, r.code, r.remediatedAt>>

\* C25: no step changes the fields the adapter produced; the remediation
\* fields change only when the remediate handler records an attempt, which
\* leaves the pull-request field alone; the pull-request field changes only
\* when the create-pr handler records a created pull request, which leaves
\* the remediation fields alone; and a request updates the finding once if
\* it made an attempt or a pull request, and not at all otherwise.
C25_OnlyLifecycleFieldsChange ==
  [][/\ rem'.severity = rem.severity /\ rem'.file = rem.file
     /\ Lifecycle(rem') # Lifecycle(rem) =>
          /\ rem.handler = "remediate" /\ rem.pc = "record"
          /\ rem'.prUrl = rem.prUrl
     /\ rem'.prUrl # rem.prUrl =>
          /\ rem.handler = "pr" /\ rem.pc = "update" /\ rem.created
          /\ Lifecycle(rem') = Lifecycle(rem)
     /\ rem'.updates <= 1
     /\ rem'.pc \in {"cleanup", "done"} =>
          rem'.updates = IF \/ rem'.handler = "remediate" /\ rem'.returned
                            \/ rem'.handler = "pr" /\ rem'.response = 200
                         THEN 1 ELSE 0]_vars

C25_Witness ==
  /\ rem.handler = "remediate" /\ rem.pc = "done" /\ rem.updates = 1
  /\ rem.result.success /\ rem.prUrl = 1

\* C28: a create-pr request for a finding whose remediation status is not
\* success, or that holds no remediated code, is answered 400 at once, with
\* no clone, no write, no git command, no GitHub call and no update of the
\* finding; and the pull-request field changes only for a finding whose
\* status is success and that holds remediated code.
C28_PrNeedsSuccessfulRemediation ==
  [][/\ rem'.handler = "pr" /\ ~(rem'.status = "success" /\ rem'.code) =>
          /\ rem'.pc = "done" /\ rem'.response = 400
          /\ rem'.copy = "none" /\ rem'.writes = {}
          /\ rem'.git = {} /\ rem'.api = {}
          /\ rem'.updates = 0 /\ rem'.prUrl = rem'.prBefore
     /\ rem'.prUrl # rem.prUrl => rem.status = "success" /\ rem.code]_vars

C28_Witness ==
  /\ rem.handler = "pr" /\ rem.status = "failed" /\ rem.code
  /\ rem.pc = "done" /\ rem.response = 400

\* C29 as stated: a finding with a pull-request URL has remediation
\* status success and holds remediated code.
C29_PrImpliesSuccess ==
  rem.prUrl # 0 => rem.status = "success" /\ rem.code

\* C29: a finding with a pull-request URL holds remediated code and has
\* been remediated (status success or failed); the URL is set only while
\* the status is success, and a later attempt leaves it in place.
C29_PrImpliesRemediated ==
  [][/\ rem'.prUrl # 0 => rem'.code /\ rem'.status \in {"success", "failed"}
     /\ rem'.prUrl # rem.prUrl =>
          rem.status = "success" /\ rem'.status = "success" /\ rem'.prUrl # 0
     /\ rem.prUrl # 0 => rem'.prUrl # 0]_vars

C29_Witness ==
  rem.prUrl = 1 /\ rem.status = "failed" /\ rem.code /\ rem.pc = "done"

(***************************************************************************)
(* RemediationService.generateDiff as a function of the two texts.  A text *)
(* is the list of lines split('\n') gives, which is never empty; the diff  *)
(* is the list of its hunks after the two file header lines, a hunk being  *)
(* the four numbers of its header and its lines, each with its prefix.     *)
(***************************************************************************)

\* Longest text tried, in lines.
MaxLines == 3

\* The lines texts are made of.
Lines == {"a", "b"}

\* original.split('\n') and fixed.split('\n').
Texts == UNION {[1 .. k -> Lines] : k \in 1 .. MaxLines}

\* lines[i] for the 0-based index i: <<>> stands for undefined.
LineAt(lines, i) == IF i + 1 <= Len(lines) THEN <<lines[i + 1]>> ELSE <<>>

\* Math.max and Math.min.
Max(x, y) == IF x >= y THEN x ELSE y

Min(x, y) == IF x <= y THEN x ELSE y

\* The lines originalLines[from .. to] (0-based, inclusive) as context.
ContextLines(originalLines, from, to) ==
  [j \in 1 .. Max(0, to - from + 1) |-> <<" ", originalLines[from + j]>>]

RECURSIVE DiffFrom(_, _, _, _, _, _)
\* The loop of generateDiff from position i on, and the final hunk after it.
DiffFrom(originalLines, fixedLines, i, hunkStart, hunkLines, hunks) ==
  IF i >= Max(Len(originalLines), Len(fixedLines))
  THEN IF hunkStart # -1 /\ hunkLines # <<>>
       THEN Append(hunks, [os |-> hunkStart + 1,
                           ol |-> Len(originalLines) - hunkStart,
                           ns |-> hunkStart + 1,
                           nl |-> Len(fixedLines) - hunkStart,
                           lines |-> hunkLines])
       ELSE hunks
  ELSE LET origLine  == LineAt(originalLines, i)
           fixedLine == LineAt(fixedLines, i)
       IN  IF origLine # fixedLine
           THEN DiffFrom(originalLines, fixedLines, i + 1,
                         IF hunkStart = -1 THEN i ELSE hunkStart,
                         hunkLines
                           \o (IF origLine # <<>> THEN << <<"-", origLine[1]>> >> ELSE <<>>)
                           \o (IF fixedLine # <<>> THEN << <<"+", fixedLine[1]>> >> ELSE <<>>),
                         hunks)
           ELSE IF hunkStart # -1 /\ hunkLines # <<>>
           THEN LET contextBefore == Max(0, hunkStart - 3)
                    contextAfter  == Min(Len(originalLines) - 1, i + 2)
                    hunk == [os |-> contextBefore + 1, ol |-> i - contextBefore,
                             ns |-> contextBefore + 1, nl |-> i - contextBefore,
                             lines |-> ContextLines(originalLines, contextBefore, hunkStart - 1)
                                         \o hunkLines
                                         \o ContextLines(originalLines, i, contextAfter)]
                IN  DiffFrom(originalLines, fixedLines, i + 1, -1, <<>>,
                             Append(hunks, hunk))
           ELSE DiffFrom(originalLines, fixedLines, i + 1, hunkStart, hunkLines, hunks)

\* generateDiff(original, fixed, filename), without the two header lines.
GenerateDiff(originalLines, fixedLines) ==
  DiffFrom(originalLines, fixedLines, 0, -1, <<>>, <<>>)

\* The pairs of texts under study.
InitDiff ==
  /\ ScanIdle
  /\ diffCase \in {[at |-> "call", original |-> o, fixed |-> f] :
                     o \in Texts, f \in Texts}
  /\ DirsIdle /\ RemIdle /\ GuardIdle /\ StoredIdle /\ BranchIdle /\ ModelsIdle

\* The call generateDiff(originalCode, fixedCode, issue.file).
CallGenerateDiff ==
  /\ diffCase.at = "call"
  /\ diffCase' = [at |-> "done", original |-> diffCase.original,
                  fixed |-> diffCase.fixed,
                  hunks |-> GenerateDiff(diffCase.original, diffCase.fixed)]
  /\ UNCHANGED <<scanVars, dirs, rem, guardCase, stored, branch, models>>

NextDiff == CallGenerateDiff

SpecDiff == InitDiff /\ [][NextDiff]_vars

RECURSIVE ApplyLines(_, _, _, _, _)
\* Application of one hunk's lines from its j-th on, at line pos of the
\* original: a context or removed line must be the original's line there.
ApplyLines(o, lines, j, pos, out) ==
  IF j > Len(lines) THEN <<"ok", pos, out>>
  ELSE IF lines[j][1] = "+"
       THEN ApplyLines(o, lines, j + 1, pos, Append(out, lines[j][2]))
  ELSE IF pos > Len(o) \/ o[pos] # lines[j][2] THEN <<"reject">>
  ELSE ApplyLines(o, lines, j + 1, pos + 1,
                  IF lines[j][1] = " " THEN Append(out, lines[j][2]) ELSE out)

RECURSIVE ApplyFrom(_, _, _, _, _)
\* Application of the hunks from the k-th on; cursor is the first line of
\* the original not yet consumed.  Only the start of a header is used (the
\* lengths are not checked), and a hunk may not start before the cursor.
ApplyFrom(o, hunks, k, cursor, out) ==
  IF k > Len(hunks) THEN <<"ok", out \o SubSeq(o, cursor, Len(o))>>
  ELSE IF hunks[k].os < cursor \/ hunks[k].os > Len(o) + 1 THEN <<"reject">>
  ELSE LET r == ApplyLines(o, hunks[k].lines, 1, hunks[k].os,
                           out \o SubSeq(o, cursor, hunks[k].os - 1))
       IN  IF r[1] = "reject" THEN r
           ELSE ApplyFrom(o, hunks, k + 1, r[2], r[3])

\* The text a diff's hunks make of the original, or a rejection.
ApplyHunks(o, hunks) == ApplyFrom(o, hunks, 1, 1, <<>>)

\* C17: the hunks of the generated diff, applied to the original, give
\* the fixed text, and equal texts give a diff without hunks.
C17_DiffRoundTrip ==
  diffCase.at = "done" =>
    /\ ApplyHunks(diffCase.original, diffCase.hunks) = <<"ok", diffCase.fixed>>
    /\ diffCase.original = diffCase.fixed => diffCase.hunks = <<>>

\* The positions of a hunk's lines that carry the given prefix.
Positions(h, tag) == {j \in 1 .. Len(h.lines) : h.lines[j][1] = tag}

\* C18: in every generated hunk no added line comes before a removed
\* line, at most three context lines come before the changed run and at
\* most three after it, and none inside it.
C18_HunkShape ==
  diffCase.at = "done" =>
    \A k \in 1 .. Len(diffCase.hunks) :
      LET h       == diffCase.hunks[k]
          changed == Positions(h, "-") \cup Positions(h, "+")
      IN  /\ \A r \in Positions(h, "-"), d \in Positions(h, "+") : r < d
          /\ Cardinality({c \in Positions(h, " ") : \A x \in changed : c < x}) <= 3
          /\ Cardinality({c \in Positions(h, " ") : \A x \in changed : c > x}) <= 3
          /\ \A c \in Positions(h, " ") :
               (\A x \in changed : c < x) \/ (\A x \in changed : c > x)

(***************************************************************************)
(* The file path an adapter stores in a finding, as a function of the tool, *)
(* the scanned directory and the path the tool reported.                   *)
(***************************************************************************)

\* The adapters whose findings carry a file.
PathTools == Tools \ {"deepAnalysis"}

\* The file names three adapters store as literals.
PackageJson == <<"p", "a", "c", "k", "a", "g", "e", ".", "j", "s", "o", "n">>

RequirementsOrSetup == 
  <<"r", "e", "q", "u", "i", "r", "e", "m", "e", "n", "t", "s", ".", "t", "x", "t">>
    \o <<" ", "/", " ", "s", "e", "t", "u", "p", ".", "p", "y">>

UnknownFile == <<"U", "n", "k", "n", "o", "w", "n", " ", "f", "i", "l", "e">>

RECURSIVE IndexFrom(_, _, _)
\* str.indexOf(pat) searched from position i on (1-based), 0 if absent.
IndexFrom(str, pat, i) ==
  IF i + Len(pat) - 1 > Len(str) THEN 0
  ELSE IF SubSeq(str, i, i + Len(pat) - 1) = pat THEN i
  ELSE IndexFrom(str, pat, i + 1)

\* str.replace(pat, ''): the first occurrence of pat is removed.
ReplaceWithEmpty(str, pat) ==
  LET i == IndexFrom(str, pat, 1)
  IN  IF i = 0 THEN str
      ELSE SubSeq(str, 1, i - 1) \o SubSeq(str, i + Len(pat), Len(str))

\* The `file` an adapter puts in a finding for the reported path p:
\* <<"ok", file>>, or <<"throw">> when validatePath throws into the
\* adapter's catch.
StoredFile(t, cwd, directory, p) ==
  CASE t \in {"eslint", "securityPatterns", "semgrep", "bandit"} ->
         LET v == ValidatePathBasic(cwd, directory, p)
         IN  IF v[1] = "ok" THEN <<"ok", ReplaceWithEmpty(v[2], directory)>>
             ELSE <<"throw">>
    [] t = "npmAudit" -> <<"ok", PackageJson>>
    [] t = "safety" -> <<"ok", RequirementsOrSetup>>
    [] t = "trivy" -> <<"ok", p>>
    [] t = "secretScan" -> <<"ok", IF p = <<>> THEN UnknownFile ELSE p>>

\* The reports under study: a tool, the server's working directory and the
\* path in the tool's output (possibly absent).
InitStored ==
  /\ ScanIdle
  /\ stored \in {[at |-> "report", tool |-> t, cwd |-> c, file |-> p] :
                   t \in PathTools, c \in WorkingDirs,
                   p \in {<<>>} \cup PathStrings(MaxPathLen)}
  /\ DirsIdle /\ RemIdle /\ DiffIdle /\ GuardIdle /\ BranchIdle /\ ModelsIdle

\* The adapter builds the finding for the reported path.
StoreFinding ==
  /\ stored.at = "report"
  /\ stored' = [at |-> "done", tool |-> stored.tool, cwd |-> stored.cwd,
                file |-> stored.file,
                out |-> StoredFile(stored.tool, stored.cwd, RepoPath, stored.file)]
  /\ UNCHANGED <<scanVars, dirs, rem, diffCase, guardCase, branch, models>>

NextStored == StoreFinding

SpecStored == InitStored /\ [][NextStored]_vars

\* C20: the path stored in a finding, taken relative to the working copy's
\* root, lies inside the working copy, and an absolute path reported by a
\* tool is stored as the path of that same file relative to the root, not
\* as the host path.
C20_StoredPathsInsideRoot ==
  stored.at = "done" /\ stored.out[1] = "ok" =>
    /\ IsWithin(RepoPath, PathJoin(RepoPath, stored.out[2]))
    /\ stored.tool \notin {"npmAudit", "safety"}
         /\ stored.file # <<>> /\ stored.file[1] = "/" =>
         PathJoin(RepoPath, stored.out[2]) = Resolve(stored.cwd, stored.file)

(***************************************************************************)
(* The severity an adapter stores in a finding, as a function of the tool  *)
(* and the severity value found in the tool's output.                      *)
(***************************************************************************)

\* The spellings of severity words tried, each with its toLowerCase() and
\* its toUpperCase().
CaseTable ==
  {
     <<"critical", "critical", "CRITICAL">>, <<"high", "high", "HIGH">>,
     <<"moderate", "moderate", "MODERATE">>,
     <<"medium", "medium", "MEDIUM">>, <<"low", "low", "LOW">>,
     <<"info", "info", "INFO">>, <<"error", "error", "ERROR">>,
     <<"warning", "warning", "WARNING">>,
     <<"unknown", "unknown", "UNKNOWN">>,
     <<"negligible", "negligible", "NEGLIGIBLE">>,
     <<"bogus", "bogus", "BOGUS">>, <<"Critical", "critical", "CRITICAL">>,
     <<"High", "high", "HIGH">>, <<"CRITICAL", "critical", "CRITICAL">>,
     <<"HIGH", "high", "HIGH">>, <<"MODERATE", "moderate", "MODERATE">>,
     <<"MEDIUM", "medium", "MEDIUM">>, <<"LOW", "low", "LOW">>,
     <<"INFO", "info", "INFO">>, <<"ERROR", "error", "ERROR">>,
     <<"WARNING", "warning", "WARNING">>,
     <<"UNKNOWN", "unknown", "UNKNOWN">>,
     <<"NEGLIGIBLE", "negligible", "NEGLIGIBLE">>,
     <<"BOGUS", "bogus", "BOGUS">>
  }

\* The strings a tool's output may hold as a severity.
SeverityStrings == {row[1] : row \in CaseTable}

\* String.prototype.toLowerCase and toUpperCase on those strings.
ToLowerCase(str) == (CHOOSE row \in CaseTable : row[1] = str)[2]

ToUpperCase(str) == (CHOOSE row \in CaseTable : row[1] = str)[3]

\* What the JSON of a tool may hold where the severity is expected: a
\* string, a number, or nothing.
NativeSeverities ==
  {[kind |-> "string", v |-> str] : str \in SeverityStrings}
    \cup {[kind |-> "number", v |-> n] : n \in {"0", "1", "2", "3"}}
    \cup {[kind |-> "undefined", v |-> ""]}

\* `value || fallback` as the adapters use it on the severity.
OrDefault(native, fallback) ==
  IF native.kind = "undefined" \/ (native.kind = "number" /\ native.v = "0")
  THEN [kind |-> "string", v |-> fallback]
  ELSE native

\* mapNpmSeverity, mapSemgrepSeverity, mapTrivySeverity, mapBanditSeverity
\* and mapSafetySeverity: `x?.toLowerCase()` (or toUpperCase) is undefined
\* for undefined and a TypeError for a number, which the adapter's catch
\* turns into an empty stage.
MapNpmSeverity(native) ==
  IF native.kind = "number" THEN <<"throw">>
  ELSE IF native.kind = "undefined" THEN <<"ok", "low">>
  ELSE LET x == ToLowerCase(native.v)
       IN  IF x \in {"critical", "high"} THEN <<"ok", "high">>
           ELSE IF x \in {"moderate", "medium"} THEN <<"ok", "medium">>
           ELSE <<"ok", "low">>

MapSemgrepSeverity(native) ==
  IF native.kind = "number" THEN <<"throw">>
  ELSE IF native.kind = "undefined" THEN <<"ok", "low">>
  ELSE LET x == ToUpperCase(native.v)
       IN  IF x \in {"ERROR", "HIGH"} THEN <<"ok", "high">>
           ELSE IF x \in {"WARNING", "MEDIUM"} THEN <<"ok", "medium">>
           ELSE <<"ok", "low">>

MapTrivySeverity(native) ==
  IF native.kind = "number" THEN <<"throw">>
  ELSE IF native.kind = "undefined" THEN <<"ok", "low">>
  ELSE LET x == ToUpperCase(native.v)
       IN  IF x \in {"CRITICAL", "HIGH"} THEN <<"ok", "high">>
           ELSE IF x = "MEDIUM" THEN <<"ok", "medium">>
           ELSE <<"ok", "low">>

MapBanditSeverity(native) ==
  IF native.kind = "number" THEN <<"throw">>
  ELSE IF native.kind = "undefined" THEN <<"ok", "low">>
  ELSE LET x == ToUpperCase(native.v)
       IN  IF x = "HIGH" THEN <<"ok", "high">>
           ELSE IF x = "MEDIUM" THEN <<"ok", "medium">>
           ELSE <<"ok", "low">>

MapSafetySeverity(native) ==
  IF native.kind = "number" THEN <<"throw">>
  ELSE IF native.kind = "undefined" THEN <<"ok", "low">>
  ELSE LET x == ToUpperCase(native.v)
       IN  IF x \in {"CRITICAL", "HIGH"} THEN <<"ok", "high">>
           ELSE IF x \in {"MEDIUM", "MODERATE"} THEN <<"ok", "medium">>
           ELSE <<"ok", "low">>

\* The severities the four patterns of analyzeSecurityPatterns carry.
PatternSeverities == {"high", "medium", "low"}

\* The `severity` an adapter puts in a finding: <<"ok", severity>>, or
\* <<"throw">> when the mapping throws into the adapter's catch.
StoredSeverity(t, native, pattern) ==
  CASE t = "eslint" ->
         IF native = [kind |-> "number", v |-> "2"] THEN <<"ok", "high">>
         ELSE IF native = [kind |-> "number", v |-> "1"] THEN <<"ok", "medium">>
         ELSE <<"ok", "low">>
    [] t = "npmAudit" -> MapNpmSeverity(native)
    [] t = "securityPatterns" -> <<"ok", pattern>>
    [] t = "semgrep" -> MapSemgrepSeverity(OrDefault(native, "INFO"))
    [] t = "trivy" -> MapTrivySeverity(native)
    [] t = "secretScan" -> <<"ok", "high">>
    [] t = "bandit" -> MapBanditSeverity(native)
    [] t = "safety" -> MapSafetySeverity(OrDefault(native, "UNKNOWN"))

\* The reports under study: a tool and the severity in its output (for the
\* pattern analysis, which of its patterns matched).
InitSeverity ==
  /\ ScanIdle
  /\ stored \in {[at |-> "severity", tool |-> t, native |-> n, pattern |-> p] :
                   t \in PathTools, n \in NativeSeverities, p \in PatternSeverities}
  /\ DirsIdle /\ RemIdle /\ DiffIdle /\ GuardIdle /\ BranchIdle /\ ModelsIdle

\* The adapter builds the finding for the reported severity.
StoreSeverity ==
  /\ stored.at = "severity"
  /\ stored' = [at |-> "stored", tool |-> stored.tool, native |-> stored.native,
                pattern |-> stored.pattern,
                out |-> StoredSeverity(stored.tool, stored.native, stored.pattern)]
  /\ UNCHANGED <<scanVars, dirs, rem, diffCase, guardCase, branch, models>>

NextSeverity == StoreSeverity

SpecSeverity == InitSeverity /\ [][NextSeverity]_vars

\* The adapters that take the severity word from the tool's output.
WordTools == {"npmAudit", "semgrep", "trivy", "bandit", "safety"}

\* C21: every stored severity is one of high, medium, low; in every
\* adapter that maps a severity word "critical" and "high" (in any case) are
\* stored as high and a word no adapter knows, or a missing one, as low;
\* and the lint severity 2 is stored as high.
C21_SeverityMapping ==
  stored.at = "stored" /\ stored.out[1] = "ok" =>
    LET word == IF stored.native.kind = "string"
                THEN ToLowerCase(stored.native.v) ELSE "none"
    IN  /\ stored.out[2] \in {"high", "medium", "low"}
        /\ (stored.tool \in WordTools /\ word \in {"critical", "high"})
             => stored.out[2] = "high"
        /\ (stored.tool \in WordTools
              /\ (stored.native.kind = "undefined" \/ word \in {"bogus", "unknown"}))
             => stored.out[2] = "low"
        /\ (stored.tool = "eslint" /\ stored.native = [kind |-> "number", v |-> "2"])
             => stored.out[2] = "high"

(***************************************************************************)
(* GitHubPRService.createBranchAndCommit and pushBranch: the branch name   *)
(* the create-pr handler passes to both, and the names they give to git.   *)
(***************************************************************************)

\* Longest beginning of a requested branch name tried; the rest of the
\* name is a run of one character.
MaxBranchHead == 2

\* The 100 of substring(0, 100).
BranchNameLimit == 100

\* The characters requested names are made of: a letter, an underscore, a
\* slash, a space and a tilde.
BranchChars == {"a", "_", "/", " ", "~"}

\* Of the characters tried, those in the class [a-zA-Z0-9\-_\/].
AllowedBranchChars == {"a", "-", "_", "/"}

\* The requested names: a beginning of up to MaxBranchHead characters and
\* a run that takes the name to just below, to, or beyond the limit.
BranchNames ==
  {head \o [i \in 1 .. n |-> c] :
     head \in UNION {[1 .. k -> BranchChars] : k \in 0 .. MaxBranchHead},
     n \in {0, BranchNameLimit - 1, BranchNameLimit},
     c \in {"a", " "}}

\* branchName.replace(/[^a-zA-Z0-9\-_\/]/g, '-').substring(0, 100).
SanitizeBranchName(branchName) ==
  LET replaced == [i \in 1 .. Len(branchName) |->
                     IF branchName[i] \in AllowedBranchChars
                     THEN branchName[i] ELSE "-"]
  IN  SubSeq(replaced, 1, Min(Len(replaced), BranchNameLimit))

\* A pushBranch that pushes the name it was given.  The property of C22
\* must tell it from the real one.
PushedNameRaw(branchName) == branchName

\* The name pushBranch gives to git.push('origin', ...).
PushedName(branchName) == SanitizeBranchName(branchName)

\* The names under study.
InitBranch ==
  /\ ScanIdle
  /\ branch \in {[at |-> "request", requested |-> b, created |-> <<>>,
                  pushed |-> <<>>] : b \in BranchNames}
  /\ DirsIdle /\ RemIdle /\ DiffIdle /\ GuardIdle /\ StoredIdle /\ ModelsIdle

\* createBranchAndCommit: the sanitized name is checked out, the file added
\* and committed; a git failure is rethrown.
CreateBranchAndCommit(ok) ==
  /\ branch.at = "request"
  /\ branch' = IF ok
               THEN [branch EXCEPT !.at = "committed",
                                   !.created = SanitizeBranchName(branch.requested)]
               ELSE [branch EXCEPT !.at = "failed"]
  /\ UNCHANGED <<scanVars, dirs, rem, diffCase, guardCase, stored, models>>

\* pushBranch with the same requested name; a git failure is rethrown.
PushBranch(ok) ==
  /\ branch.at = "committed"
  /\ branch' = IF ok
               THEN [branch EXCEPT !.at = "pushed",
                                   !.pushed = PushedName(branch.requested)]
               ELSE [branch EXCEPT !.at = "failed"]
  /\ UNCHANGED <<scanVars, dirs, rem, diffCase, guardCase, stored, models>>

NextBranch ==
  \/ \E ok \in BOOLEAN : CreateBranchAndCommit(ok)
  \/ \E ok \in BOOLEAN : PushBranch(ok)

SpecBranch == InitBranch /\ [][NextBranch]_vars

\* C22: the name of the created branch holds only characters of the
\* allowed class and at most BranchNameLimit of them, and the name pushed
\* for the same requested name is the name of the created branch.
C22_BranchNameSafeAndSame ==
  /\ branch.at \in {"committed", "pushed"} =>
       /\ \A i \in 1 .. Len(branch.created) : branch.created[i] \in AllowedBranchChars
       /\ Len(branch.created) <= BranchNameLimit
  /\ branch.at = "pushed" => branch.pushed = branch.created

C22_Witness ==
  /\ branch.at = "pushed"
  /\ Len(branch.requested) > BranchNameLimit
  /\ \E i \in 1 .. BranchNameLimit : branch.requested[i] \notin AllowedBranchChars
  /\ Len(branch.created) = BranchNameLimit

(***************************************************************************)
(* The model configurations of MemStorage and the three routes that        *)
(* create, update and delete them.                                         *)
(***************************************************************************)

\* Most configurations held at a time.
MaxModels == 3

\* The ids configurations are stored under (randomUUID gives an unused one).
ModelIds == 1 .. MaxModels

\* The provider and isDefault values a request body may carry; isDefault is
\* the text "true" or "false".
ModelBodies ==
  {[provider |-> p, isDefault |-> d] :
     p \in {"ollama", "openai"}, d \in {"true", "false"}}

\* The bodies of PATCH requests: any part of a configuration.
ModelUpdates ==
  ModelBodies
    \cup {[provider |-> p] : p \in {"ollama", "openai"}}
    \cup {[isDefault |-> d] : d \in {"true", "false"}}

\* { ...settings, ...updates }.
MergeSettings(settings, updates) ==
  [k \in DOMAIN settings |-> IF k \in DOMAIN updates THEN updates[k] ELSE settings[k]]

\* Array.from(modelSettings.values()).filter(s => s.isDefault === "true"):
\* getDefaultModelSettings returns the first of these.
DefaultModels == {id \in DOMAIN models : models[id].isDefault = "true"}

\* POST /api/model-settings: createModelSettings stores the validated body
\* under a new id.
PostModelSettings(body) ==
  /\ DOMAIN models # ModelIds
  /\ LET id == CHOOSE i \in ModelIds \ DOMAIN models :
                 \A j \in ModelIds \ DOMAIN models : i <= j
     IN  models' = MapSet(models, id, body)
  /\ UNCHANGED <<scanVars, dirs, rem, diffCase, guardCase, stored, branch>>

\* PATCH /api/model-settings/:id: updateModelSettings merges the body into
\* the stored configuration; an unknown id is answered 404.
PatchModelSettings(id, updates) ==
  /\ id \in DOMAIN models
  /\ models' = MapSet(models, id, MergeSettings(models[id], updates))
  /\ UNCHANGED <<scanVars, dirs, rem, diffCase, guardCase, stored, branch>>

\* DELETE /api/model-settings/:id.
DeleteModelSettings(id) ==
  /\ id \in DOMAIN models
  /\ models' = MapDelete(models, id)
  /\ UNCHANGED <<scanVars, dirs, rem, diffCase, guardCase, stored, branch>>

NextModels ==
  \/ \E body \in ModelBodies : PostModelSettings(body)
  \/ \E id \in ModelIds, updates \in ModelUpdates : PatchModelSettings(id, updates)
  \/ \E id \in ModelIds : DeleteModelSettings(id)

SpecModels == Init /\ [][NextModels]_vars

\* C23: at most one stored model configuration is marked default.
C23_AtMostOneDefault == Cardinality(DefaultModels) <= 1


\* ------------------------------------------- sanitizeRepositoryName twice

\* Longest repository name tried.
MaxSanLen == 4

\* Characters of the names tried: one the sanitizer keeps, the dot, the
\* separator, and one it replaces and isPathSafe rejects.
NameChars == {"a", ".", "/", "<"}

\* Every name of at most n characters, the empty one included.
NameStrings(n) == UNION {[1 .. k -> NameChars] : k \in 0 .. n}

InitSanitize ==
  /\ ScanIdle
  /\ guardCase \in {[at |-> "name", name |-> x] : x \in NameStrings(MaxSanLen)}
  /\ DirsIdle /\ RemIdle /\ DiffIdle /\ StoredIdle /\ BranchIdle /\ ModelsIdle

\* sanitizeRepositoryName of server/storage.ts is called, and called again
\* on what it returned.
CallSanitizeRepositoryName ==
  /\ guardCase.at = "name"
  /\ LET out == SanitizeRepositoryName(guardCase.name)
     IN  guardCase' =
           [at |-> "sanitized", name |-> guardCase.name, out |-> out,
            again |-> IF out[1] = "ok" THEN SanitizeRepositoryName(out[2]) ELSE out]
  /\ UNCHANGED <<scanVars, dirs, rem, diffCase, stored, branch, models>>

\* The sanitizeRepositoryName of server/utils/security.ts is called likewise.
CallSanitizeRepositoryNameBasic ==
  /\ guardCase.at = "name"
  /\ LET out == SanitizeRepositoryNameBasic(guardCase.name)
     IN  guardCase' =
           [at |-> "sanitizedBasic", name |-> guardCase.name, out |-> out,
            again |-> IF out[1] = "ok" THEN SanitizeRepositoryNameBasic(out[2]) ELSE out]
  /\ UNCHANGED <<scanVars, dirs, rem, diffCase, stored, branch, models>>

NextSanitize == CallSanitizeRepositoryName \/ CallSanitizeRepositoryNameBasic

SpecSanitize == InitSanitize /\ [][NextSanitize]_vars


\* ---------------------------------------------------------------- C26

\* C26: whenever sanitizeRepositoryName succeeds on a name, applying it to
\* its own result succeeds as well and returns that same result.
C26_SanitizeIdempotent ==
  (guardCase.at \in {"sanitized", "sanitizedBasic"} /\ guardCase.out[1] = "ok") =>
    guardCase.again = guardCase.out

\* A name the sanitizer accepted and changed: it was normalised and had a
\* separator replaced, and the second application left the result alone.
C26_Witness ==
  /\ guardCase.at = "sanitized"
  /\ guardCase.name = <<".", "/", "a", "/">>
  /\ guardCase.out = <<"ok", <<"a", "_">> >>
  /\ guardCase.again = guardCase.out


\* ---------------------------------------------------------------- C27

\* A stage of scanDirectory is under way for the session at b.
StageUnderWay(b) == b \in {"access", "exec", "deep"}

\* C27: a stage begins only when the reports before it are applied to the
\* record and the live entry; the orchestrator is never inside a stage while
\* a progress write of its session is still in flight; and once the record
\* of a session is completed or failed, no progress report of that session
\* is applied, neither its durable half nor its live half.
C27_ProgressWritesSettled ==
  [][\A s \in Sessions :
       /\ ran'[s] # ran[s] => progressPending[s] = <<>>
       /\ StageUnderWay(pc'[s]) => progressPending'[s] = <<>>
       /\ (s \in DOMAIN scans /\ scans[s].status \in Terminal) =>
            progressPending'[s] = progressPending[s]]_vars


\* ---------------------------------------------------------------- C30

\* C30: in every state, a scan record carries a completion time exactly when
\* its status is completed or failed; and a completed record has progress
\* 100 and no current step, and once its background task has finished, no
\* live progress entry.
C30_TerminalRecordShape ==
  \A s \in DOMAIN scans :
    /\ scans[s].completedAt <=> scans[s].status \in Terminal
    /\ scans[s].status = "completed" =>
         /\ scans[s].progress = 100
         /\ scans[s].currentStep = "null"
         /\ pc[s] = "done" => s \notin DOMAIN activeScans

\* A session that was cancelled while it ran, went through at least one
\* stage and its progress report, and finished as completed.
C30_Witness ==
  \E s \in DOMAIN scans :
    /\ cancelledAt[s] = "running"
    /\ ran[s] # <<>>
    /\ scans[s].status = "completed"
    /\ pc[s] = "done"

====
